---- MODULE Spec2Model ----
(***************************************************************************)
(* Material container codec of azure-spar (src/material, src/binary).      *)
(*                                                                         *)
(* Bytes are integers 0..255 and a buffer is a sequence of bytes.  A JS    *)
(* string is the sequence of its code points.  Unsigned 32 and 64 bit      *)
(* quantities are kept as their little-endian byte sequence ("limbs"),     *)
(* because they do not fit the checker's integers; 8 and 16 bit            *)
(* quantities are integers.  A thrown exception is the field e of the      *)
(* cursor: once set, later reads are no-ops and the first error wins,      *)
(* which is what unwinding does.                                           *)
(***************************************************************************)
EXTENDS Integers, Sequences, FiniteSets, TLC

VARIABLES pc, level, ctx, data, decoded, written, reread

vars == <<pc, level, ctx, data, decoded, written, reread>>

Null == "null"

\* the element of a singleton set
The(S) == CHOOSE x \in S : TRUE

Min(a, b) == IF a < b THEN a ELSE b

Max(a, b) == IF a < b THEN b ELSE a

\* ss[lo] \o ... \o ss[hi], joined by halves
RECURSIVE ConcatRange(_, _, _)
ConcatRange(ss, lo, hi) ==
  IF lo > hi THEN <<>>
  ELSE IF lo = hi THEN ss[lo]
  ELSE ConcatRange(ss, lo, (lo + hi) \div 2) \o ConcatRange(ss, (lo + hi) \div 2 + 1, hi)

Concat(ss) == ConcatRange(ss, 1, Len(ss))

Repeat(x, n) == [i \in 1..n |-> x]

Slice(s, from, to) == SubSeq(s, from + 1, Min(to, Len(s)))

IndexOf(seq, x) ==
  IF \E i \in 1..Len(seq) : seq[i] = x
  THEN CHOOSE i \in 1..Len(seq) : seq[i] = x /\ \A j \in 1..(i - 1) : seq[j] # x
  ELSE 0

(***************************************************************************)
(* Text: TextDecoder("utf-8") and TextEncoder.                             *)
(* One- and two-byte sequences are decoded exactly; every other byte is    *)
(* replaced by U+FFFD, which is exact for the byte alphabet of the model   *)
(* (no three- or four-byte sequences).                                     *)
(***************************************************************************)
REPLACEMENT == 65533

\* bs[i] and bs[i + 1] are a two-byte sequence
IsPairAt(bs, i) ==
  /\ i >= 1 /\ i < Len(bs)
  /\ bs[i] >= 194 /\ bs[i] <= 223
  /\ bs[i + 1] >= 128 /\ bs[i + 1] <= 191

\* the code points decoded at position i: none for the second byte of a
\* two-byte sequence (its first byte is a lead byte, which always starts a
\* sequence)
DecodeAt(bs, i) ==
  IF bs[i] < 128 THEN <<bs[i]>>
  ELSE IF IsPairAt(bs, i) THEN <<(bs[i] - 192) * 64 + (bs[i + 1] - 128)>>
  ELSE IF IsPairAt(bs, i - 1) THEN <<>>
  ELSE <<REPLACEMENT>>

\* a byte below 128 is its own code point
TextDecode(bs) ==
  IF \A i \in 1..Len(bs) : bs[i] < 128 THEN bs
  ELSE Concat([i \in 1..Len(bs) |-> DecodeAt(bs, i)])

EncodeCodePoint(c) ==
  IF c < 128 THEN <<c>>
  ELSE IF c < 2048 THEN <<192 + (c \div 64), 128 + (c % 64)>>
  ELSE IF c < 65536
       THEN <<224 + (c \div 4096), 128 + ((c \div 64) % 64), 128 + (c % 64)>>
  ELSE <<240 + (c \div 262144), 128 + ((c \div 4096) % 64),
         128 + ((c \div 64) % 64), 128 + (c % 64)>>

\* a code point below 128 is its own byte
TextEncode(cs) ==
  IF \A i \in 1..Len(cs) : cs[i] < 128 THEN cs
  ELSE Concat([i \in 1..Len(cs) |-> EncodeCodePoint(cs[i])])

(***************************************************************************)
(* Little-endian limbs.                                                    *)
(***************************************************************************)
Limbs(n, k) == [i \in 1..k |-> IF i = 1 THEN n % 256
                               ELSE IF i = 2 THEN (n \div 256) % 256
                               ELSE IF i = 3 THEN (n \div 65536) % 256
                               ELSE IF i = 4 THEN (n \div 16777216) % 256
                               ELSE 0]

\* ToUint32 / BigInt.asUintN(64): keep the low k bytes, zero-extend.
Wrap(l, k) == [i \in 1..k |-> IF i <= Len(l) THEN l[i] ELSE 0]

\* The value of a limb sequence as a length or count.  Values of 2^24 and
\* more are clamped to 2^24: every buffer of the model is shorter, and the
\* code only compares such a value with the buffer length.
HUGE == 16777216

ToNumber(l) ==
  IF \E i \in 4..Len(l) : l[i] # 0 THEN HUGE
  ELSE l[1] + 256 * l[2] + 65536 * l[3]

(***************************************************************************)
(* BinaryReader (src/binary/reader.ts).  A cursor is [b, o, e, why].       *)
(***************************************************************************)
NoError == "none"

BinaryReader(buffer) == [b |-> buffer, o |-> 0, e |-> NoError, why |-> ""]

Throw(r, kind, msg) == IF r.e = NoError THEN [r EXCEPT !.e = kind, !.why = msg] ELSE r

Remaining(r) == Len(r.b) - r.o

\* DataView getters throw RangeError when the access leaves the view.
ViewGet(r, n, dflt) ==
  IF r.e # NoError THEN [v |-> dflt, r |-> r]
  ELSE IF r.o + n > Len(r.b) THEN [v |-> dflt, r |-> Throw(r, "RangeError", "view")]
  ELSE [v |-> SubSeq(r.b, r.o + 1, r.o + n), r |-> [r EXCEPT !.o = @ + n]]

readUlonglong(r) == ViewGet(r, 8, Repeat(0, 8))

readUlong(r) == ViewGet(r, 4, Repeat(0, 4))

readUshort(r) ==
  LET g == ViewGet(r, 2, <<0, 0>>) IN [v |-> g.v[1] + 256 * g.v[2], r |-> g.r]

readUbyte(r) ==
  LET g == ViewGet(r, 1, <<0>>) IN [v |-> g.v[1], r |-> g.r]

readBool(r) ==
  LET g == readUbyte(r) IN [v |-> g.v # 0, r |-> g.r]

\* Uint8Array.slice clamps to the buffer and never throws; the offset still
\* advances by count.
readBytes(r, count) ==
  IF r.e # NoError THEN [v |-> <<>>, r |-> r]
  ELSE [v |-> Slice(r.b, r.o, r.o + count), r |-> [r EXCEPT !.o = @ + count]]

readArray(r) ==
  LET n == readUlong(r) IN readBytes(n.r, ToNumber(n.v))

readString(r) ==
  LET a == readArray(r) IN [v |-> TextDecode(a.v), r |-> a.r]

\* A float32 is kept as its four bytes: the conversion to a JS number and
\* back is exact for every value that is not a NaN.
readFloat32(r) == ViewGet(r, 4, Repeat(0, 4))

\* the branch of a conditional that does not read, and the empty array
\* before a loop that reads
Skip(r, v) == [v |-> v, r |-> r]

\* acc.push(u), where u was read: s is [v, r], the array and the cursor
Push(s, u) == [v |-> Append(s.v, u.v), r |-> u.r]

RECURSIVE readFloat32s(_, _)
readFloat32s(s, count) ==
  IF count = 0 \/ s.r.e # NoError THEN s
  ELSE readFloat32s(Push(s, readFloat32(s.r)), count - 1)

readFloat32Array(r, count) == readFloat32s(Skip(r, <<>>), count)

(***************************************************************************)
(* The body of a function that reads, statement by statement.  Its state   *)
(* is a record: the cursor r, the constants the body has bound so far, by  *)
(* name, and the call it is waiting for.  A statement is skipped once the  *)
(* cursor holds an exception.                                              *)
(***************************************************************************)
NoCall == [fn |-> "", name |-> "", n |-> 0, list |-> FALSE, nested |-> FALSE, x0 |-> <<>>]

Begin(r) == [r |-> r, call |-> NoCall]

\* const name = g, where g reads: it gives [v, r]
Read(x, name, g) ==
  IF x.r.e # NoError THEN x
  ELSE (name :> g.v) @@ [x EXCEPT !.r = g.r]

\* const name = v, where v does not read
Const(x, name, v) == IF x.r.e # NoError THEN x ELSE (name :> v) @@ x

\* if (bad) throw new kind(msg)
ThrowIf(x, bad, kind, msg) ==
  IF x.r.e = NoError /\ bad THEN [x EXCEPT !.r = Throw(x.r, kind, msg)] ELSE x

\* const name = fn(reader, args), where fn is a function with a body
Call(x, name, fn, args) ==
  IF x.r.e # NoError THEN x
  ELSE (name :> Null) @@
       [x EXCEPT !.call = [fn |-> fn, name |-> name, n |-> 1, list |-> FALSE,
                           nested |-> FALSE, x0 |-> args @@ Begin(x.r)]]

\* const name = []; for (let i = 0; i < n; i++) name.push(fn(reader, args))
Loop(x, name, fn, n, args) ==
  IF x.r.e # NoError THEN x
  ELSE (name :> <<>>) @@
       [x EXCEPT !.call = [fn |-> fn, name |-> name, n |-> n, list |-> TRUE,
                           nested |-> FALSE, x0 |-> args @@ Begin(x.r)]]

\* const name = fn(bytes, args), where fn reads with a cursor of its own: x0
\* is the state in which its body begins
Nested(x, name, fn, x0) ==
  IF x.r.e # NoError THEN x
  ELSE (name :> Null) @@
       [x EXCEPT !.call = [fn |-> fn, name |-> name, n |-> 1, list |-> FALSE,
                           nested |-> TRUE, x0 |-> x0]]

\* the value returned (the constant named return) or nothing, and the cursor
Done(x) == [v |-> IF x.r.e # NoError THEN Null ELSE x.return, r |-> x.r]

(***************************************************************************)
(* BinaryWriter (src/binary/writer.ts).  A write returns the bytes it      *)
(* appends; DataView setters reduce the value modulo the field width.      *)
(***************************************************************************)
writeUlonglong(val) == Wrap(val, 8)

writeUlong(val) == Wrap(val, 4)

writeUshort(val) == <<val % 256, (val \div 256) % 256>>

writeUbyte(val) == <<val % 256>>

writeBool(val) == writeUbyte(IF val THEN 1 ELSE 0)

writeBytes(val) == val

writeArray(val) == writeUlong(Limbs(Len(val), 4)) \o writeBytes(val)

writeString(val) == writeArray(TextEncode(val))

writeFloat32Array(values) == Concat(values)

(***************************************************************************)
(* JS objects used as string maps (Record<string, string>).  An object is  *)
(* the sequence of its own entries in property order: array-index keys in  *)
(* ascending numeric order first, then the other keys in insertion order.  *)
(***************************************************************************)
IsDigits(k) == \A i \in 1..Len(k) : k[i] >= 48 /\ k[i] <= 57

RECURSIVE SeqLess(_, _)
SeqLess(a, b) ==
  IF a = <<>> \/ b = <<>> THEN FALSE
  ELSE IF a[1] # b[1] THEN a[1] < b[1]
  ELSE SeqLess(Tail(a), Tail(b))

\* decimal comparison of canonical numeric strings
NumLess(a, b) == Len(a) < Len(b) \/ (Len(a) = Len(b) /\ SeqLess(a, b))

MaxArrayIndex == <<52, 50, 57, 52, 57, 54, 55, 50, 57, 52>>  \* "4294967294"

IsArrayIndex(k) ==
  /\ Len(k) >= 1
  /\ IsDigits(k)
  /\ (Len(k) = 1 \/ k[1] # 48)
  /\ (k = MaxArrayIndex \/ NumLess(k, MaxArrayIndex))

ObjKeys(obj) == [i \in 1..Len(obj) |-> obj[i][1]]

InsertAt(s, i, x) == SubSeq(s, 1, i - 1) \o <<x>> \o SubSeq(s, i, Len(s))

\* obj[key] = val
ObjSet(obj, key, val) ==
  LET at == IndexOf(ObjKeys(obj), key) IN
  IF at # 0 THEN [obj EXCEPT ![at] = <<key, val>>]
  ELSE IF IsArrayIndex(key)
       THEN LET before == {i \in 1..Len(obj) :
                              IsArrayIndex(obj[i][1]) /\ NumLess(obj[i][1], key)}
            IN InsertAt(obj, Cardinality(before) + 1, <<key, val>>)
  ELSE Append(obj, <<key, val>>)

ObjectEntries(obj) == obj

RECURSIVE ObjFromEntries(_, _)
ObjFromEntries(entries, acc) ==
  IF entries = <<>> THEN acc
  ELSE ObjFromEntries(Tail(entries), ObjSet(acc, entries[1][1], entries[1][2]))

IsObject(obj) == ObjFromEntries(obj, <<>>) = obj

(***************************************************************************)
(* Enum catalog (src/material/enums.ts).  A TypeScript numeric enum member *)
(* is a number at run time.                                                *)
(***************************************************************************)
Vertex == 0
Fragment == 1
Compute == 2
UnknownStage == 3

ShaderStage == {Vertex, Fragment, Compute, UnknownStage}

SHADER_STAGE_NAMES ==
  (Vertex :> <<86,101,114,116,101,120>>) @@                \* "Vertex"
  (Fragment :> <<70,114,97,103,109,101,110,116>>) @@       \* "Fragment"
  (Compute :> <<67,111,109,112,117,116,101>>) @@           \* "Compute"
  (UnknownStage :> <<85,110,107,110,111,119,110>>)         \* "Unknown"

Direct3D_SM40 == 1
Direct3D_SM50 == 2
Direct3D_SM60 == 3
Direct3D_SM65 == 4
Direct3D_XB1 == 5
Direct3D_XBX == 6
GLSL_120 == 7
GLSL_430 == 8
ESSL_300 == 9
ESSL_310 == 10
Metal == 11
Vulkan == 12
Nvn == 13
PSSL == 14
UnknownPlatform == 15

ShaderPlatform == 1..15

SHADER_PLATFORM_NAMES ==
  (Direct3D_SM40 :> <<68,105,114,101,99,116,51,68,95,83,77,52,48>>) @@
  (Direct3D_SM50 :> <<68,105,114,101,99,116,51,68,95,83,77,53,48>>) @@
  (Direct3D_SM60 :> <<68,105,114,101,99,116,51,68,95,83,77,54,48>>) @@
  (Direct3D_SM65 :> <<68,105,114,101,99,116,51,68,95,83,77,54,53>>) @@
  (Direct3D_XB1 :> <<68,105,114,101,99,116,51,68,95,88,66,49>>) @@
  (Direct3D_XBX :> <<68,105,114,101,99,116,51,68,95,88,66,88>>) @@
  (GLSL_120 :> <<71,76,83,76,95,49,50,48>>) @@
  (GLSL_430 :> <<71,76,83,76,95,52,51,48>>) @@
  (ESSL_300 :> <<69,83,83,76,95,51,48,48>>) @@
  (ESSL_310 :> <<69,83,83,76,95,51,49,48>>) @@
  (Metal :> <<77,101,116,97,108>>) @@
  (Vulkan :> <<86,117,108,107,97,110>>) @@
  (Nvn :> <<78,118,110>>) @@
  (PSSL :> <<80,83,83,76>>) @@
  (UnknownPlatform :> <<85,110,107,110,111,119,110>>)

\* Object.entries(names).find(([, v]) => v === name); the result is
\* [found, v]: a miss throws Error("Unknown ...").
FromName(names, name) ==
  IF \E k \in DOMAIN names : names[k] = name
  THEN [found |-> TRUE, v |-> CHOOSE k \in DOMAIN names : names[k] = name]
  ELSE [found |-> FALSE, v |-> 0]

shaderStageFromName(name) == FromName(SHADER_STAGE_NAMES, name)

shaderPlatformFromName(name) == FromName(SHADER_PLATFORM_NAMES, name)

\* Run-time values held by the platform map: a wire index and an enum member
\* are both JS numbers.
Num(n) == [type |-> "number", n |-> n]

Undefined == [type |-> "undefined", n |-> 0]

TypeofNumber(x) == x.type = "number"

\* A Map in insertion order, as a sequence of <<key, value>>.
platformMapping(version) ==
  IF version >= 25
  THEN << <<Direct3D_SM40, Num(0)>>, <<Direct3D_SM50, Num(1)>>,
          <<Direct3D_SM60, Num(2)>>, <<Direct3D_SM65, Num(3)>>,
          <<Direct3D_XB1, Num(4)>>, <<Direct3D_XBX, Num(5)>>,
          <<GLSL_120, Num(6)>>, <<GLSL_430, Num(7)>>, <<ESSL_310, Num(8)>>,
          <<Metal, Num(9)>>, <<Vulkan, Num(10)>>, <<Nvn, Num(11)>>,
          <<PSSL, Num(12)>>, <<UnknownPlatform, Num(13)>>,
          <<ESSL_300, Num(ESSL_310)>> >>
  ELSE << <<Direct3D_SM40, Num(0)>>, <<Direct3D_SM50, Num(1)>>,
          <<Direct3D_SM60, Num(2)>>, <<Direct3D_SM65, Num(3)>>,
          <<Direct3D_XB1, Num(4)>>, <<Direct3D_XBX, Num(5)>>,
          <<GLSL_120, Num(6)>>, <<GLSL_430, Num(7)>>, <<ESSL_300, Num(8)>>,
          <<ESSL_310, Num(9)>>, <<Metal, Num(10)>>, <<Vulkan, Num(11)>>,
          <<Nvn, Num(12)>>, <<PSSL, Num(13)>>, <<UnknownPlatform, Num(14)>> >>

MapGet(mapping, key) ==
  IF \E i \in 1..Len(mapping) : mapping[i][1] = key
  THEN mapping[CHOOSE i \in 1..Len(mapping) : mapping[i][1] = key][2]
  ELSE Undefined

\* [ok, v]: ok = FALSE is the thrown Error("... is not supported ...").
getPlatformValue(platform, version) ==
  The({The({IF ~TypeofNumber(val) THEN [ok |-> FALSE, v |-> 0]
            ELSE [ok |-> TRUE, v |-> val.n] :
            val \in {IF ~TypeofNumber(first) /\ first # Undefined
                     THEN MapGet(platformMapping(version), first.n) ELSE first}}) :
       first \in {MapGet(platformMapping(version), platform)}})

getPlatformName(platform, version) ==
  LET val == MapGet(platformMapping(version), platform) IN
  IF TypeofNumber(val) THEN [ok |-> TRUE, v |-> SHADER_PLATFORM_NAMES[platform]]
  ELSE IF val # Undefined THEN [ok |-> TRUE, v |-> SHADER_PLATFORM_NAMES[val.n]]
  ELSE [ok |-> FALSE, v |-> <<>>]

\* for (const [platform, value] of mapping) if (typeof value === "number") push:
\* the keys of the entries that hold a number, in the order of the map
NumberedKeys(mapping) ==
  Concat([i \in 1..Len(mapping) |->
            IF TypeofNumber(mapping[i][2]) THEN <<mapping[i][1]>> ELSE <<>>])

getPlatformList(version) == NumberedKeys(platformMapping(version))

(***************************************************************************)
(* SupportedPlatforms (src/material/supported-platforms.ts).  The map      *)
(* platforms is a function from the platforms it holds to booleans.        *)
(***************************************************************************)
ZERO == 48

ONE == 49

validateBitString(bitString, length) ==
  IF \E i \in 1..Len(bitString) : bitString[i] # ZERO /\ bitString[i] # ONE
  THEN Repeat(ONE, length)
  ELSE bitString

padStart(s, length, fill) ==
  IF Len(s) >= length THEN s ELSE Repeat(fill, length - Len(s)) \o s

\* a formatter that pads at the end (String.prototype.padEnd)
formatBitStringPadEnd(bitString, length) ==
  LET cut == Slice(bitString, 0, length) IN cut \o Repeat(ZERO, length - Len(cut))

formatBitString(bitString, length) ==
  padStart(Slice(bitString, 0, length), length, ZERO)

createSupportedPlatforms == [platforms |-> [p \in ShaderPlatform |-> TRUE]]

LastIndexOf(seq, x) ==
  CHOOSE i \in 1..Len(seq) : seq[i] = x /\ \A j \in (i + 1)..Len(seq) : seq[j] # x

\* for (i = 0; i < platformList.length; i++)
\*   platforms.set(platformList[i], formatted[i] === "1"): the last write of a key wins
SetAll(platforms, platformList, formatted) ==
  [p \in DOMAIN platforms \cup {platformList[i] : i \in 1..Len(platformList)} |->
     IF \E i \in 1..Len(platformList) : platformList[i] = p
     THEN formatted[LastIndexOf(platformList, p)] = ONE
     ELSE platforms[p]]

parseSupportedPlatforms(bitString, version) ==
  The({[platforms |->
          SetAll([p \in ShaderPlatform |-> TRUE], platformList,
                 formatBitString(validateBitString(bitString, Len(platformList)),
                                 Len(platformList)))] :
       platformList \in {getPlatformList(version)}})

getSupportedPlatformsBitString(sp, version) ==
  LET platformList == getPlatformList(version) IN
  [i \in 1..Len(platformList) |->
     IF platformList[i] \in DOMAIN sp.platforms /\ sp.platforms[platformList[i]]
     THEN ONE ELSE ZERO]

(***************************************************************************)
(* Back-end shader wrapper (src/material/bgfx-shader.ts).                  *)
(* A reader returns [v, r]: the value and the cursor after it.             *)
(***************************************************************************)
VSH == <<86, 83, 72>>

FSH == <<70, 83, 72>>

CSH == <<67, 83, 72>>

createBgfxShader ==
  [hash |-> Repeat(0, 4), uniforms |-> <<>>, groupSize |-> <<>>,
   shaderBytes |-> <<>>, attributes |-> <<>>, size |-> 0]

\* statement k of readBgfxUniform
readBgfxUniformBody(k, x) ==
  CASE k = 1 -> Read(x, "nameLength", readUbyte(x.r))
    [] k = 2 -> Read(x, "nameBytes", readBytes(x.r, x.nameLength))
    [] k = 3 -> Read(x, "typeBits", readUbyte(x.r))
    [] k = 4 -> Read(x, "count", readUbyte(x.r))
    [] k = 5 -> Read(x, "regIndex", readUshort(x.r))
    [] k = 6 -> Read(x, "regCount", readUshort(x.r))
    [] k = 7 -> Const(x, "return",
                  [name |-> TextDecode(x.nameBytes), typeBits |-> x.typeBits,
                  count |-> x.count, regIndex |-> x.regIndex,
                  regCount |-> x.regCount])

RECURSIVE readUshorts(_, _)
readUshorts(s, n) ==
  IF n = 0 \/ s.r.e # NoError THEN s
  ELSE readUshorts(Push(s, readUshort(s.r)), n - 1)

writeBgfxUniform(uniform) ==
  LET nameBytes == TextEncode(uniform.name) IN
  writeUbyte(Len(nameBytes)) \o writeBytes(nameBytes) \o writeUbyte(uniform.typeBits)
    \o writeUbyte(uniform.count) \o writeUshort(uniform.regIndex)
    \o writeUshort(uniform.regCount)

\* version === 5 || (version === 3 && header === "CSH")
VersionSupported(version, header) == version = 5 \/ (version = 3 /\ header = CSH)

\* The result of a top-level read: the value, or the exception thrown.
Result(r, v) ==
  [err |-> r.e, why |-> r.why, val |-> IF r.e = NoError THEN v ELSE Null]

ResultOf(g) == Result(g.r, g.v)

\* statement k of readBgfxShader
readBgfxShaderBody(k, x) ==
  CASE k = 1 -> Read(x, "headerBytes", readBytes(x.r, 3))
    [] k = 2 -> Const(x, "header", TextDecode(x.headerBytes))
    [] k = 3 -> ThrowIf(x, x.header \notin {VSH, FSH, CSH},
                  "Error", "Unrecognized BGFX shader bin header")
    [] k = 4 -> Read(x, "version", readUbyte(x.r))
    [] k = 5 -> ThrowIf(x, ~VersionSupported(x.version, x.header),
                  "Error", "Unsupported BGFX shader bin version")
    [] k = 6 -> Read(x, "hash", readUlong(x.r))
    [] k = 7 -> Read(x, "uniformCount", readUshort(x.r))
    [] k = 8 -> Loop(x, "uniforms", "readBgfxUniform", x.uniformCount, <<>>)
    [] k = 9 -> Read(x, "groupSize",
                  IF x.platform = Metal /\ x.stage = Compute
                  THEN readUshorts(Skip(x.r, <<>>), 3) ELSE Skip(x.r, <<>>))
    [] k = 10 -> Read(x, "shaderByteLength", readUlong(x.r))
    [] k = 11 -> Read(x, "shaderBytes", readBytes(x.r, ToNumber(x.shaderByteLength)))
    [] k = 12 -> Read(x, "padding", readUbyte(x.r))
    [] k = 13 -> Const(x, "hasTail", Remaining(x.r) > 0)
    [] k = 14 -> Read(x, "attributeCount",
                   IF x.hasTail THEN readUbyte(x.r) ELSE Skip(x.r, 0))
    [] k = 15 -> Read(x, "attributes",
                   IF x.hasTail THEN readUshorts(Skip(x.r, <<>>), x.attributeCount)
                   ELSE Skip(x.r, <<>>))
    [] k = 16 -> Read(x, "size", IF x.hasTail THEN readUshort(x.r) ELSE Skip(x.r, -1))
    [] k = 17 -> Const(x, "return",
                   [hash |-> x.hash, uniforms |-> x.uniforms, groupSize |-> x.groupSize,
                   shaderBytes |-> x.shaderBytes, attributes |-> x.attributes,
                   size |-> x.size])

\* shader.groupSize[i] ?? 0
GroupSizeAt(shader, i) == IF i <= Len(shader.groupSize) THEN shader.groupSize[i] ELSE 0

BgfxHeader(stage) ==
  IF stage = Vertex THEN [header |-> VSH, version |-> 5]
  ELSE IF stage = Compute THEN [header |-> CSH, version |-> 3]
  ELSE [header |-> FSH, version |-> 5]

BgfxHashBytes(hash) == writeUlong(hash)

writeBgfxShader(platform, stage, shader) ==
  LET h == BgfxHeader(stage) IN
  writeBytes(TextEncode(h.header)) \o writeUbyte(h.version) \o BgfxHashBytes(shader.hash)
    \o writeUshort(Len(shader.uniforms))
    \o Concat([i \in 1..Len(shader.uniforms) |-> writeBgfxUniform(shader.uniforms[i])])
    \o (IF platform = Metal /\ stage = Compute
        THEN Concat([i \in 1..3 |-> writeUshort(GroupSizeAt(shader, i))])
        ELSE <<>>)
    \o writeUlong(Limbs(Len(shader.shaderBytes), 4)) \o writeBytes(shader.shaderBytes)
    \o writeUbyte(0)
    \o (IF shader.size # -1
        THEN writeUbyte(Len(shader.attributes))
               \o Concat([i \in 1..Len(shader.attributes) |->
                            writeUshort(shader.attributes[i])])
               \o writeUshort(shader.size)
        ELSE <<>>)

(***************************************************************************)
(* ShaderInput (src/material/shader-input.ts).                             *)
(***************************************************************************)
PrecisionNone == -1

InterpolationNone == -1

\* statement k of readShaderInput
readShaderInputBody(k, x) ==
  CASE k = 1 -> Read(x, "name", readString(x.r))
    [] k = 2 -> Read(x, "type", readUbyte(x.r))
    [] k = 3 -> Read(x, "index", readUbyte(x.r))
    [] k = 4 -> Read(x, "subIndex", readUbyte(x.r))
    [] k = 5 -> Read(x, "perInstance", readBool(x.r))
    [] k = 6 -> Read(x, "hasPrecision", readBool(x.r))
    [] k = 7 -> Read(x, "precision",
                  IF x.hasPrecision THEN readUbyte(x.r)
                  ELSE Skip(x.r, PrecisionNone))
    [] k = 8 -> Read(x, "hasInterpolation", readBool(x.r))
    [] k = 9 -> Read(x, "interpolation",
                  IF x.hasInterpolation THEN readUbyte(x.r)
                  ELSE Skip(x.r, InterpolationNone))
    [] k = 10 -> Const(x, "return",
                   [name |-> x.name, type |-> x.type,
                   semantic |-> [index |-> x.index, subIndex |-> x.subIndex],
                   perInstance |-> x.perInstance, precision |-> x.precision,
                   interpolation |-> x.interpolation])

writeShaderInput(inp) ==
  writeString(inp.name) \o writeUbyte(inp.type) \o writeUbyte(inp.semantic.index)
    \o writeUbyte(inp.semantic.subIndex) \o writeBool(inp.perInstance)
    \o writeBool(inp.precision # PrecisionNone)
    \o (IF inp.precision # PrecisionNone THEN writeUbyte(inp.precision) ELSE <<>>)
    \o writeBool(inp.interpolation # InterpolationNone)
    \o (IF inp.interpolation # InterpolationNone
        THEN writeUbyte(inp.interpolation) ELSE <<>>)

(***************************************************************************)
(* ShaderDefinition (src/material/shader-definition.ts).                   *)
(***************************************************************************)
\* The exception of the nested reader leaves through the enclosing one.
Rethrow(r, inner) == IF inner.e # NoError THEN Throw(r, inner.e, inner.why) ELSE r

\* statement k of readShaderDefinition
readShaderDefinitionBody(k, x) ==
  CASE k = 1 -> Read(x, "stageName", readString(x.r))
    [] k = 2 -> Read(x, "platformName", readString(x.r))
    [] k = 3 -> Const(x, "stage", shaderStageFromName(x.stageName))
    [] k = 4 -> ThrowIf(x, ~x.stage.found, "Error", "Unknown shader stage")
    [] k = 5 -> Const(x, "platform", shaderPlatformFromName(x.platformName))
    [] k = 6 -> ThrowIf(x, ~x.platform.found, "Error", "Unknown shader platform")
    [] k = 7 -> Read(x, "stageIndex", readUbyte(x.r))
    [] k = 8 -> ThrowIf(x, x.stage.v # x.stageIndex,
                  "Error", "Stage name and index do not match")
    [] k = 9 -> Read(x, "platformIndex", readUbyte(x.r))
    [] k = 10 -> Const(x, "expectedPlatformIndex",
                   getPlatformValue(x.platform.v, x.version))
    [] k = 11 -> ThrowIf(x, ~x.expectedPlatformIndex.ok,
                   "Error", "Platform is not supported")
    [] k = 12 -> ThrowIf(x, x.expectedPlatformIndex.v # x.platformIndex,
                   "Error", "Platform name and index do not match")
    [] k = 13 -> Read(x, "inputCount", readUshort(x.r))
    [] k = 14 -> Loop(x, "inputs", "readShaderInput", x.inputCount, <<>>)
    [] k = 15 -> Read(x, "hash", readUlonglong(x.r))
    [] k = 16 -> Read(x, "bgfxShaderData", readArray(x.r))
    [] k = 17 -> Nested(x, "bgfxShader", "readBgfxShader",
                   [platform |-> x.platform.v, stage |-> x.stage.v]
                   @@ Begin(BinaryReader(x.bgfxShaderData)))
    [] k = 18 -> Const(x, "return",
                   [stage |-> x.stage.v, platform |-> x.platform.v, inputs |-> x.inputs,
                   hash |-> x.hash, bgfxShader |-> x.bgfxShader])

\* a writer that stores the definition hash through the 32-bit setter
DefHashBytesNarrow(hash) == writeUlong(hash) \o Repeat(0, 4)

DefHashBytes(hash) == writeUlonglong(hash)

\* [err, bytes]: getPlatformName / getPlatformValue may throw.
writeShaderDefinition(def, version) ==
  LET name == getPlatformName(def.platform, version)
      index == getPlatformValue(def.platform, version)
      bgfxBytes == writeBgfxShader(def.platform, def.stage, def.bgfxShader)
  IN IF ~name.ok \/ ~index.ok THEN [err |-> "Error", bytes |-> <<>>]
     ELSE [err |-> NoError,
           bytes |-> writeString(SHADER_STAGE_NAMES[def.stage]) \o writeString(name.v)
                       \o writeUbyte(def.stage) \o writeUbyte(index.v)
                       \o writeUshort(Len(def.inputs))
                       \o Concat([i \in 1..Len(def.inputs) |-> writeShaderInput(def.inputs[i])])
                       \o DefHashBytes(def.hash)
                       \o writeArray(bgfxBytes)]

(***************************************************************************)
(* Writers that may throw return [err, bytes]; WAll chains them.           *)
(***************************************************************************)
WOk(bytes) == [err |-> NoError, bytes |-> bytes]

RECURSIVE WAll(_)
WAll(ws) ==
  IF ws = <<>> THEN WOk(<<>>)
  ELSE IF ws[1].err # NoError THEN [err |-> ws[1].err, bytes |-> <<>>]
  ELSE LET rest == WAll(Tail(ws)) IN
       IF rest.err # NoError THEN rest ELSE WOk(ws[1].bytes \o rest.bytes)

\* for (const [key, value] of Object.entries(obj)) { writeString(key); writeString(value) }
writeEntries(obj) ==
  Concat([i \in 1..Len(ObjectEntries(obj)) |->
            writeString(ObjectEntries(obj)[i][1]) \o writeString(ObjectEntries(obj)[i][2])])

\* obj[key] = val, where key and val were read
PutEntry(s, key, val) ==
  [v |-> IF val.r.e = NoError THEN ObjSet(s.v, key.v, val.v) ELSE s.v, r |-> val.r]

\* const key = reader.readString(); obj[key] = reader.readString()
readEntry(s, key) == PutEntry(s, key, readString(key.r))

RECURSIVE readEntries(_, _)
readEntries(s, n) ==
  IF n = 0 \/ s.r.e # NoError THEN s
  ELSE readEntries(readEntry(s, readString(s.r)), n - 1)

(***************************************************************************)
(* MaterialBuffer (src/material/buffer.ts).  A field of type T | null is   *)
(* <<>> for null and <<x>> for the value x.                                *)
(***************************************************************************)
RECURSIVE BitOr(_, _)
BitOr(a, b) ==
  IF a = 0 THEN b ELSE IF b = 0 THEN a
  ELSE (IF a % 2 = 1 \/ b % 2 = 1 THEN 1 ELSE 0) + 2 * BitOr(a \div 2, b \div 2)

\* [ok, v]: a value outside 0..3 throws Error.
createSamplerState(val) ==
  IF val < 0 \/ val > 3 THEN [ok |-> FALSE, v |-> Null]
  ELSE [ok |-> TRUE, v |-> [filter |-> val % 2, wrapping |-> (val \div 2) % 2]]

\* a packing with the two bits exchanged
getSamplerStateValueSwapped(state) == BitOr(state.wrapping, state.filter * 2)

getSamplerStateValue(state) == BitOr(state.filter, state.wrapping * 2)

\* statement k of readMaterialBuffer
readMaterialBufferBody(k, x) ==
  CASE k = 1 -> Read(x, "name", readString(x.r))
    [] k = 2 -> Read(x, "reg1", readUshort(x.r))
    [] k = 3 -> Read(x, "access", readUbyte(x.r))
    [] k = 4 -> Read(x, "precision", readUbyte(x.r))
    [] k = 5 -> Read(x, "unorderedAccess", readBool(x.r))
    [] k = 6 -> Read(x, "type", readUbyte(x.r))
    [] k = 7 -> Read(x, "textureFormat", readString(x.r))
    [] k = 8 -> Read(x, "alwaysOne", readUlong(x.r))
    [] k = 9 -> Read(x, "reg2", readUbyte(x.r))
    [] k = 10 -> Read(x, "hasSampler", readBool(x.r))
    [] k = 11 -> Read(x, "samplerByte",
                   IF x.hasSampler THEN readUbyte(x.r) ELSE Skip(x.r, 0))
    [] k = 12 -> ThrowIf(x, x.hasSampler /\ ~createSamplerState(x.samplerByte).ok,
                   "Error", "Sampler state outside range")
    [] k = 13 -> Const(x, "samplerState",
                   IF x.hasSampler THEN <<createSamplerState(x.samplerByte).v>>
                   ELSE <<>>)
    [] k = 14 -> Read(x, "hasDefault", readBool(x.r))
    [] k = 15 -> Read(x, "defaultTexture",
                   IF x.hasDefault THEN readString(x.r) ELSE Skip(x.r, <<>>))
    [] k = 16 -> Read(x, "hasPath", readBool(x.r))
    [] k = 17 -> Read(x, "texturePath",
                   IF x.hasPath THEN readString(x.r) ELSE Skip(x.r, <<>>))
    [] k = 18 -> Read(x, "hasCustom", readBool(x.r))
    [] k = 19 -> Read(x, "struct", IF x.hasCustom THEN readString(x.r) ELSE Skip(x.r, <<>>))
    [] k = 20 -> Read(x, "size",
                   IF x.hasCustom THEN readUlong(x.r) ELSE Skip(x.r, Repeat(0, 4)))
    [] k = 21 -> Const(x, "return",
                   [name |-> x.name, reg1 |-> x.reg1, access |-> x.access,
                   precision |-> x.precision, unorderedAccess |-> x.unorderedAccess,
                   type |-> x.type, textureFormat |-> x.textureFormat,
                   alwaysOne |-> x.alwaysOne, reg2 |-> x.reg2,
                   samplerState |-> x.samplerState,
                   defaultTexture |-> x.defaultTexture, texturePath |-> x.texturePath,
                   customTypeInfo |->
                   IF x.hasCustom THEN <<[struct |-> x.struct, size |-> x.size]>>
                   ELSE <<>>])

writeMaterialBuffer(buf, version) ==
  writeString(buf.name) \o writeUshort(buf.reg1) \o writeUbyte(buf.access)
    \o writeUbyte(buf.precision) \o writeBool(buf.unorderedAccess)
    \o writeUbyte(buf.type) \o writeString(buf.textureFormat)
    \o writeUlong(buf.alwaysOne) \o writeUbyte(buf.reg2)
    \o writeBool(buf.samplerState # <<>>)
    \o (IF buf.samplerState # <<>>
        THEN writeUbyte(getSamplerStateValue(buf.samplerState[1])) ELSE <<>>)
    \o writeBool(buf.defaultTexture # <<>>)
    \o (IF buf.defaultTexture # <<>> THEN writeString(buf.defaultTexture) ELSE <<>>)
    \o writeBool(buf.texturePath # <<>>)
    \o (IF buf.texturePath # <<>> THEN writeString(buf.texturePath) ELSE <<>>)
    \o writeBool(buf.customTypeInfo # <<>>)
    \o (IF buf.customTypeInfo # <<>>
        THEN writeString(buf.customTypeInfo[1].struct)
               \o writeUlong(buf.customTypeInfo[1].size)
        ELSE <<>>)

(***************************************************************************)
(* Uniform (src/material/uniform.ts).                                      *)
(***************************************************************************)
Vec4 == 2
Mat3 == 3
Mat4 == 4
External == 5

FLOAT_COUNTS == (Vec4 :> 4) @@ (Mat3 :> 9) @@ (Mat4 :> 16)

\* statement k of readUniform
readUniformBody(k, x) ==
  CASE k = 1 -> Read(x, "name", readString(x.r))
    [] k = 2 -> Read(x, "type", readUshort(x.r))
    [] k = 3 -> Read(x, "count",
                  IF x.type >= 2 /\ x.type <= 4 THEN readUlong(x.r)
                  ELSE Skip(x.r, Repeat(0, 4)))
    [] k = 4 -> Read(x, "hasData",
                  IF x.type >= 2 /\ x.type <= 4 THEN readBool(x.r)
                  ELSE Skip(x.r, FALSE))
    [] k = 5 -> Read(x, "defaultValues",
                  IF x.hasData /\ x.type \in DOMAIN FLOAT_COUNTS
                  THEN readFloat32Array(x.r, FLOAT_COUNTS[x.type])
                  ELSE Skip(x.r, <<>>))
    [] k = 6 -> ThrowIf(x, x.type # External /\ (x.type < 2 \/ x.type > 5),
                  "Error", "Unrecognized uniform type")
    [] k = 7 -> Const(x, "return",
                  [name |-> x.name, type |-> x.type, count |-> x.count,
                  default |-> x.defaultValues])

writeUniform(uniform, version) ==
  writeString(uniform.name) \o writeUshort(uniform.type)
    \o (IF uniform.type >= 2 /\ uniform.type <= 4
        THEN writeUlong(uniform.count) \o writeBool(Len(uniform.default) > 0)
        ELSE <<>>)
    \o (IF Len(uniform.default) > 0 THEN writeFloat32Array(uniform.default) ELSE <<>>)

(***************************************************************************)
(* Variant (src/material/variant.ts) and Pass (src/material/pass.ts).      *)
(***************************************************************************)
\* statement k of readVariant
readVariantBody(k, x) ==
  CASE k = 1 -> Read(x, "isSupported", readBool(x.r))
    [] k = 2 -> Read(x, "flagCount", readUshort(x.r))
    [] k = 3 -> Read(x, "shaderCount", readUshort(x.r))
    [] k = 4 -> Read(x, "flags", readEntries(Skip(x.r, <<>>), x.flagCount))
    [] k = 5 -> Loop(x, "shaders", "readShaderDefinition", x.shaderCount,
                  [version |-> x.version])
    [] k = 6 -> Const(x, "return",
                  [isSupported |-> x.isSupported, flags |-> x.flags,
                  shaders |-> x.shaders])

writeVariant(variant, version) ==
  LET flagEntries == ObjectEntries(variant.flags) IN
  WAll(<<WOk(writeBool(variant.isSupported) \o writeUshort(Len(flagEntries))
               \o writeUshort(Len(variant.shaders)) \o writeEntries(variant.flags))>>
       \o [i \in 1..Len(variant.shaders) |->
             writeShaderDefinition(variant.shaders[i], version)])

BlendModeUnspecified == -1

\* statement k of readPass
readPassBody(k, x) ==
  CASE k = 1 -> Read(x, "name", readString(x.r))
    [] k = 2 -> Read(x, "bitString", readString(x.r))
    [] k = 3 -> Const(x, "supportedPlatforms",
                  parseSupportedPlatforms(x.bitString, x.version))
    [] k = 4 -> Read(x, "fallbackPass", readString(x.r))
    [] k = 5 -> Read(x, "hasBlend", readBool(x.r))
    [] k = 6 -> Read(x, "defaultBlendMode",
                  IF x.hasBlend THEN readUshort(x.r)
                  ELSE Skip(x.r, BlendModeUnspecified))
    [] k = 7 -> Read(x, "defaultFlagCount", readUshort(x.r))
    [] k = 8 -> Read(x, "defaultVariant", readEntries(Skip(x.r, <<>>), x.defaultFlagCount))
    [] k = 9 -> Read(x, "framebufferBinding",
                  IF x.version >= 23 THEN readUlong(x.r)
                  ELSE Skip(x.r, Repeat(0, 4)))
    [] k = 10 -> Read(x, "variantCount", readUshort(x.r))
    [] k = 11 -> Loop(x, "variants", "readVariant", x.variantCount, [version |-> x.version])
    [] k = 12 -> Const(x, "return",
                   [name |-> x.name, supportedPlatforms |-> x.supportedPlatforms,
                   fallbackPass |-> x.fallbackPass,
                   defaultBlendMode |-> x.defaultBlendMode,
                   defaultVariant |-> x.defaultVariant,
                   framebufferBinding |-> x.framebufferBinding,
                   variants |-> x.variants])

writePass(pass, version) ==
  WAll(<<WOk(writeString(pass.name)
               \o writeString(getSupportedPlatformsBitString(pass.supportedPlatforms, version))
               \o writeString(pass.fallbackPass)
               \o writeBool(pass.defaultBlendMode # BlendModeUnspecified)
               \o (IF pass.defaultBlendMode # BlendModeUnspecified
                   THEN writeUshort(pass.defaultBlendMode) ELSE <<>>)
               \o writeUshort(Len(ObjectEntries(pass.defaultVariant)))
               \o writeEntries(pass.defaultVariant)
               \o (IF version >= 23 THEN writeUlong(pass.framebufferBinding) ELSE <<>>)
               \o writeUshort(Len(pass.variants)))>>
       \o [i \in 1..Len(pass.variants) |-> writeVariant(pass.variants[i], version)])

(***************************************************************************)
(* Encryption layer (src/material/encryption.ts).                          *)
(***************************************************************************)
NONE == <<78, 79, 78, 69>>

SIMPLE_PASSPHRASE == <<83, 77, 80, 76>>    \* "SMPL"

KEY_PAIR == <<75, 89, 80, 82>>             \* "KYPR"

EncryptionType == {NONE, SIMPLE_PASSPHRASE, KEY_PAIR}

Reverse(s) == [i \in 1..Len(s) |-> s[Len(s) + 1 - i]]

\* statement k of readEncryptionType
readEncryptionTypeBody(k, x) ==
  CASE k = 1 -> Read(x, "bytes", readBytes(x.r, 4))
    [] k = 2 -> Const(x, "reversed", Reverse(TextDecode(x.bytes)))
    [] k = 3 -> ThrowIf(x, x.reversed \notin EncryptionType,
                  "EncryptionError", "Unknown encryption type")
    [] k = 4 -> Const(x, "return", x.reversed)

writeEncryptionType(type) == writeBytes(TextEncode(Reverse(type)))

RECURSIVE BitXor(_, _)
BitXor(a, b) ==
  IF a = 0 THEN b ELSE IF b = 0 THEN a
  ELSE (IF a % 2 # b % 2 THEN 1 ELSE 0) + 2 * BitXor(a \div 2, b \div 2)

\* s[lo] + ... + s[hi], added by halves
RECURSIVE SumRange(_, _, _)
SumRange(s, lo, hi) ==
  IF lo > hi THEN 0
  ELSE IF lo = hi THEN s[lo]
  ELSE SumRange(s, lo, (lo + hi) \div 2) + SumRange(s, (lo + hi) \div 2 + 1, hi)

Sum(s) == SumRange(s, 1, Len(s))

\* nonce.slice(0, 12) laid over a 16 byte block whose last byte is 2
CounterBlock(nonce) ==
  [i \in 1..16 |-> IF i <= Min(Len(nonce), 12) THEN nonce[i] ELSE IF i = 16 THEN 2 ELSE 0]

\* The AES-CTR key stream of Web Crypto, a function of the key, the counter
\* block and the position; the block cipher itself is not modelled.
KeyStream(key, counterBlock, i) == (Sum(key) + 3 * Sum(counterBlock) + 7 * i + 1) % 256

\* crypto.subtle.importKey("raw", ..., "AES-CTR"): DataError unless the key
\* has 128, 192 or 256 bits.
ImportKeyOk(key) == Len(key) \in {16, 24, 32}

\* crypto.subtle.encrypt / decrypt with { name: "AES-CTR", counter, length: 32 }
AesCtr(key, counterBlock, text) ==
  IF ~ImportKeyOk(key) THEN [err |-> "DataError", bytes |-> <<>>]
  ELSE WOk(Concat([i \in 1..Len(text) |->
             <<BitXor(text[i], KeyStream(key, counterBlock, i))>>]))

\* a decryption that starts at counter 1, the block GCM keeps for the tag
decryptAesGcmTagCounter(key, nonce, ciphertext) ==
  AesCtr(key, [CounterBlock(nonce) EXCEPT ![16] = 1], ciphertext)

decryptAesGcm(key, nonce, ciphertext) == AesCtr(key, CounterBlock(nonce), ciphertext)

encryptAesGcm(key, nonce, plaintext) == AesCtr(key, CounterBlock(nonce), plaintext)

(***************************************************************************)
(* Material (src/material/material.ts, held in enums.ts lines 469-731).    *)
(***************************************************************************)
MAGIC == <<90, 86, 14, 10, 0, 0, 0, 0>>     \* 168942106n

COMPILED_MATERIAL_DEFINITION ==             \* "RenderDragon.CompiledMaterialDefinition"
  <<82,101,110,100,101,114,68,114,97,103,111,110,46,67,111,109,112,105,108,101,
    100,77,97,116,101,114,105,97,108,68,101,102,105,110,105,116,105,111,110>>

CoreBuiltins == <<67,111,114,101,47,66,117,105,108,116,105,110,115>>  \* "Core/Builtins"

INITIAL_VERSION == 22

LATEST_VERSION == 25

\* { ...defaults, ...partial }: the properties of partial win
createMaterial(partial) ==
  partial @@
  [version |-> LATEST_VERSION, name |-> <<>>, encryption |-> NONE, parent |-> <<>>,
   buffers |-> <<>>, uniforms |-> <<>>, uniformOverrides |-> <<>>, passes |-> <<>>,
   encryptionKey |-> <<>>, encryptionNonce |-> <<>>]

MagicOk(magic) == magic = MAGIC

\* statement k of readMaterial
readMaterialBody(k, x) ==
  CASE k = 1 -> Read(x, "magic", readUlonglong(x.r))
    [] k = 2 -> ThrowIf(x, ~MagicOk(x.magic),
                  "MaterialFormatError", "Failed to match file magic")
    [] k = 3 -> Read(x, "definition", readString(x.r))
    [] k = 4 -> ThrowIf(x, x.definition # COMPILED_MATERIAL_DEFINITION,
                  "MaterialFormatError", "Failed to recognize file as material")
    [] k = 5 -> Read(x, "versionBig", readUlonglong(x.r))
    [] k = 6 -> Const(x, "version", ToNumber(x.versionBig))
    [] k = 7 -> ThrowIf(x, x.version < INITIAL_VERSION \/ x.version > LATEST_VERSION,
                  "UnsupportedVersionError", "Unsupported material version")
    [] k = 8 -> Call(x, "encryption", "readEncryptionType", <<>>)
    [] k = 9 -> Read(x, "encryptionKey",
                  IF x.encryption = SIMPLE_PASSPHRASE THEN readArray(x.r)
                  ELSE Skip(x.r, <<>>))
    [] k = 10 -> Read(x, "encryptionNonce",
                   IF x.encryption = SIMPLE_PASSPHRASE THEN readArray(x.r)
                   ELSE Skip(x.r, <<>>))
    [] k = 11 -> Read(x, "encryptedData",
                   IF x.encryption = SIMPLE_PASSPHRASE THEN readArray(x.r)
                   ELSE Skip(x.r, <<>>))
    [] k = 12 -> Const(x, "decrypted",
                   IF x.encryption = SIMPLE_PASSPHRASE
                   THEN decryptAesGcm(x.encryptionKey, x.encryptionNonce, x.encryptedData)
                   ELSE WOk(<<>>))
    [] k = 13 -> ThrowIf(x, x.decrypted.err # NoError, "DataError", "importKey")
    [] k = 14 -> ThrowIf(x, x.encryption = KEY_PAIR,
                   "EncryptionError", "KEY_PAIR encryption is not supported")
    [] k = 15 -> Read(x, "bodyReader",
                   IF x.encryption = SIMPLE_PASSPHRASE
                   THEN Skip(BinaryReader(x.decrypted.bytes), TRUE)
                   ELSE Skip(x.r, FALSE))
    [] k = 16 -> Read(x, "name", readString(x.r))
    [] k = 17 -> Read(x, "hasParent", readBool(x.r))
    [] k = 18 -> Read(x, "parent", IF x.hasParent THEN readString(x.r) ELSE Skip(x.r, <<>>))
    [] k = 19 -> Read(x, "bufferCount", readUbyte(x.r))
    [] k = 20 -> Loop(x, "buffers", "readMaterialBuffer", x.bufferCount,
                   [version |-> x.version])
    [] k = 21 -> Read(x, "uniformCount", readUshort(x.r))
    [] k = 22 -> Loop(x, "uniforms", "readUniform", x.uniformCount, [version |-> x.version])
    [] k = 23 -> Read(x, "overrideCount",
                   IF x.name # CoreBuiltins THEN readUshort(x.r)
                   ELSE Skip(x.r, 0))
    [] k = 24 -> Read(x, "uniformOverrides", readEntries(Skip(x.r, <<>>), x.overrideCount))
    [] k = 25 -> Read(x, "passCount", readUshort(x.r))
    [] k = 26 -> Loop(x, "passes", "readPass", x.passCount, [version |-> x.version])
    [] k = 27 -> Read(x, "trailingMagic", readUlonglong(x.r))
    [] k = 28 -> ThrowIf(x, ~MagicOk(x.trailingMagic),
                   "MaterialFormatError", "Failed to match trailing file magic")
    [] k = 29 -> Const(x, "return",
                   [version |-> x.version, name |-> x.name, encryption |-> x.encryption,
                   parent |-> x.parent, buffers |-> x.buffers, uniforms |-> x.uniforms,
                   uniformOverrides |-> x.uniformOverrides, passes |-> x.passes,
                   encryptionKey |-> x.encryptionKey,
                   encryptionNonce |-> x.encryptionNonce])

(***************************************************************************)
(* The calls of the readers.  The stack m holds a frame [fn, pc, x] for    *)
(* every body that has begun and not returned, the innermost last: pc is   *)
(* the statement to run next and x the state of the body.                  *)
(***************************************************************************)
\* the number of statements of a body
Size(fn) ==
  CASE fn = "readBgfxUniform" -> 7
    [] fn = "readBgfxShader" -> 17
    [] fn = "readShaderInput" -> 10
    [] fn = "readShaderDefinition" -> 18
    [] fn = "readMaterialBuffer" -> 21
    [] fn = "readUniform" -> 7
    [] fn = "readVariant" -> 6
    [] fn = "readPass" -> 12
    [] fn = "readEncryptionType" -> 4
    [] fn = "readMaterial" -> 29

Statement(fn, k, x) ==
  CASE fn = "readBgfxUniform" -> readBgfxUniformBody(k, x)
    [] fn = "readBgfxShader" -> readBgfxShaderBody(k, x)
    [] fn = "readShaderInput" -> readShaderInputBody(k, x)
    [] fn = "readShaderDefinition" -> readShaderDefinitionBody(k, x)
    [] fn = "readMaterialBuffer" -> readMaterialBufferBody(k, x)
    [] fn = "readUniform" -> readUniformBody(k, x)
    [] fn = "readVariant" -> readVariantBody(k, x)
    [] fn = "readPass" -> readPassBody(k, x)
    [] fn = "readEncryptionType" -> readEncryptionTypeBody(k, x)
    [] fn = "readMaterial" -> readMaterialBody(k, x)

\* the body waits for a call it has made
Calling(f) == f.x.r.e = NoError /\ f.x.call.n > 0

\* the body has returned or thrown
Returned(f) == ~Calling(f) /\ (f.x.r.e # NoError \/ f.pc > Size(f.fn))

\* the called body begins; a body that is not nested reads on with the
\* cursor of its caller
Enter(stack, f) ==
  Append(stack, [fn |-> f.x.call.fn, pc |-> 1,
                 x |-> [f.x.call.x0 EXCEPT !.r = IF f.x.call.nested THEN @ ELSE f.x.r]])

\* The innermost body f leaves its value, its cursor and its exception to
\* the body g that called it.
Leave(stack, f, g) ==
  [SubSeq(stack, 1, Len(stack) - 1) EXCEPT ![Len(stack) - 1].x =
     [g.x EXCEPT !.r = IF g.x.call.nested THEN Rethrow(@, f.x.r) ELSE f.x.r,
                 ![g.x.call.name] = IF g.x.call.list THEN Append(@, Done(f.x).v)
                                    ELSE Done(f.x).v,
                 !.call.n = @ - 1]]

\* the innermost body f runs its next statement
Advance(stack, f) ==
  [stack EXCEPT ![Len(stack)] =
     [fn |-> f.fn, pc |-> f.pc + 1, x |-> Statement(f.fn, f.pc, f.x)]]

\* a stack, and whether its outermost body has returned
Machine(stack) == [stack |-> stack, done |-> Len(stack) = 1 /\ Returned(stack[1])]

Step(stack) ==
  Machine(IF Calling(stack[Len(stack)]) THEN Enter(stack, stack[Len(stack)])
          ELSE IF Returned(stack[Len(stack)])
               THEN Leave(stack, stack[Len(stack)], stack[Len(stack) - 1])
          ELSE Advance(stack, stack[Len(stack)]))

\* 2^k steps, or the steps until the outermost body has returned
RECURSIVE Run(_, _)
Run(m, k) ==
  IF m.done THEN m
  ELSE IF k = 0 THEN Step(m.stack)
  ELSE Run(Run(m, k - 1), k - 1)

RECURSIVE RunAll(_)
RunAll(m) == IF m.done THEN m ELSE RunAll(Run(m, 10))

\* fn called in the state x0: [v, r], the value returned and the cursor
Exec(fn, x0) == Done(RunAll(Machine(<<[fn |-> fn, pc |-> 1, x |-> x0]>>)).stack[1].x)

readBgfxShader(bytes, platform, stage) ==
  ResultOf(Exec("readBgfxShader",
                [platform |-> platform, stage |-> stage] @@ Begin(BinaryReader(bytes))))

readShaderDefinition(r, version) ==
  Exec("readShaderDefinition", [version |-> version] @@ Begin(r))

readMaterial(bytes) == ResultOf(Exec("readMaterial", Begin(BinaryReader(bytes))))

writeRemainingBody(m) ==
  WAll(<<WOk(writeString(m.name)
               \o writeBool(m.parent # <<>>)
               \o (IF m.parent # <<>> THEN writeString(m.parent) ELSE <<>>)
               \o writeUbyte(Len(m.buffers))
               \o Concat([i \in 1..Len(m.buffers) |->
                            writeMaterialBuffer(m.buffers[i], m.version)])
               \o writeUshort(Len(m.uniforms))
               \o Concat([i \in 1..Len(m.uniforms) |-> writeUniform(m.uniforms[i], m.version)])
               \o (IF m.name # CoreBuiltins
                   THEN writeUshort(Len(ObjectEntries(m.uniformOverrides)))
                          \o writeEntries(m.uniformOverrides)
                   ELSE <<>>)
               \o writeUshort(Len(m.passes)))>>
       \o [i \in 1..Len(m.passes) |-> writePass(m.passes[i], m.version)]
       \o <<WOk(writeUlonglong(MAGIC))>>)

writeMaterial(m) ==
  The({IF m.encryption = SIMPLE_PASSPHRASE
       THEN IF body.err # NoError THEN body
            ELSE The({IF encrypted.err # NoError THEN encrypted
                      ELSE WOk(head \o writeArray(m.encryptionKey)
                                 \o writeArray(m.encryptionNonce)
                                 \o writeArray(encrypted.bytes)) :
                      encrypted \in {encryptAesGcm(m.encryptionKey, m.encryptionNonce,
                                                   body.bytes)}})
       ELSE IF m.encryption = KEY_PAIR THEN [err |-> "EncryptionError", bytes |-> <<>>]
       ELSE IF body.err # NoError THEN body
       ELSE WOk(head \o body.bytes) :
       head \in {writeUlonglong(MAGIC) \o writeString(COMPILED_MATERIAL_DEFINITION)
                   \o writeUlonglong(Limbs(m.version, 8))
                   \o writeEncryptionType(m.encryption)},
       body \in {writeRemainingBody(m)}})

(***************************************************************************)
(* Compilation pipeline helpers (src/compiler/bgfx-wrapper.ts).            *)
(***************************************************************************)
\* options.x ?? dflt; an optional property is <<>> when absent and <<x>>
\* when present
Nullish(opt, dflt) == IF opt = <<>> THEN dflt ELSE opt[1]

\* definition.passes.map(...) of buildMaterial
buildPass(passDef) ==
  [name |-> passDef.name,
   supportedPlatforms |-> createSupportedPlatforms,
   fallbackPass |-> <<>>,
   defaultBlendMode |-> Nullish(passDef.defaultBlendMode, BlendModeUnspecified),
   defaultVariant |-> <<>>,
   framebufferBinding |-> Repeat(0, 4),
   variants |-> <<[isSupported |-> TRUE,
                   flags |-> Nullish(passDef.flags, <<>>),
                   shaders |-> [i \in 1..Len(passDef.shaders) |->
                                  [stage |-> passDef.shaders[i].stage,
                                   platform |-> passDef.shaders[i].platform,
                                   inputs |-> passDef.shaders[i].inputs,
                                   hash |-> Repeat(0, 8),
                                   bgfxShader |-> passDef.shaders[i].bgfxShader]]]>>]

buildMaterial(definition) ==
  createMaterial([version |-> Nullish(definition.version, LATEST_VERSION),
                  name |-> definition.name,
                  encryption |-> NONE,
                  parent |-> <<>>,
                  passes |-> [i \in 1..Len(definition.passes) |->
                                buildPass(definition.passes[i])]])

wrapDxilAsBgfxShader(options) ==
  [hash |-> Nullish(options.hash, Repeat(0, 4)),
   uniforms |-> Nullish(options.uniforms, <<>>),
   groupSize |-> <<>>,
   shaderBytes |-> options.dxilBytes,
   attributes |-> Nullish(options.attributes, <<>>),
   size |-> Nullish(options.size, -1)]

(***************************************************************************)
(* Inputs of the model.  Files are described field by field and emitted by *)
(* the layout of the format, so that a file can hold what the writer       *)
(* would never produce.                                                    *)
(***************************************************************************)
MaxBits == 17

MaxShaderBytes == 2

Versions == INITIAL_VERSION..LATEST_VERSION

U16(n) == <<n % 256, (n \div 256) % 256>>

U32(n) == Limbs(n, 4)

Str(bytes) == U32(Len(bytes)) \o bytes

\* bit strings: uniform, alternating, and one odd character in an
\* alternating string
BitStringsOfLen(n) ==
  {Repeat(ZERO, n), Repeat(ONE, n),
   [i \in 1..n |-> IF i % 2 = 1 THEN ONE ELSE ZERO],
   [i \in 1..n |-> IF i % 2 = 1 THEN ZERO ELSE ONE]}
  \cup {[i \in 1..n |-> IF i = k THEN ONE ELSE ZERO] : k \in 1..n}
  \cup {[i \in 1..n |-> IF i = k THEN 120 ELSE IF i % 2 = 1 THEN ONE ELSE ZERO] : k \in 1..n}

BitStrings == UNION {BitStringsOfLen(n) : n \in 0..MaxBits}

HashSet32 == {Repeat(0, 4), <<1, 2, 3, 4>>, Repeat(255, 4)}

HashSet64 ==
  {Repeat(0, 8), <<1, 2, 3, 4, 5, 6, 7, 8>>, Repeat(255, 8), <<0, 0, 0, 0, 1, 0, 0, 0>>}

ByteStrings == {SubSeq(<<1, 2, 3>>, 1, n) : n \in 0..MaxShaderBytes}

UniformU == [name |-> <<117>>, typeBits |-> 4, count |-> 1, regIndex |-> 258, regCount |-> 1]

EmitBgfxUniform(u) ==
  <<Len(u.name)>> \o u.name \o <<u.typeBits, u.count>> \o U16(u.regIndex) \o U16(u.regCount)

\* a wrapper as it lies in a file
BgfxFile(tag, version, hash, uniforms, groupSize, shaderBytes, padding, tail, extra) ==
  tag \o <<version>> \o hash \o U16(Len(uniforms))
    \o Concat([i \in 1..Len(uniforms) |-> EmitBgfxUniform(uniforms[i])])
    \o Concat([i \in 1..Len(groupSize) |-> U16(groupSize[i])])
    \o U32(Len(shaderBytes)) \o shaderBytes \o <<padding>>
    \o Concat([i \in 1..Len(tail) |->
                 <<Len(tail[i].attributes)>>
                   \o Concat([j \in 1..Len(tail[i].attributes) |-> U16(tail[i].attributes[j])])
                   \o U16(tail[i].size)])
    \o extra

Tails == {<<>>, <<[attributes |-> <<>>, size |-> 0]>>,
          <<[attributes |-> <<5, 513>>, size |-> 65535]>>}

BgfxFiles ==
  {BgfxFile(tag, version, hash, uniforms, groupSize, shaderBytes, padding, tail, extra) :
     tag \in {VSH, FSH, CSH, <<88, 83, 72>>}, version \in {3, 4, 5},
     hash \in {<<1, 2, 3, 4>>, Repeat(255, 4)}, uniforms \in {<<>>, <<UniformU>>},
     groupSize \in {<<>>, <<1, 2, 770>>}, shaderBytes \in ByteStrings,
     padding \in {0, 7}, tail \in Tails, extra \in {<<>>, <<9>>}}

BgfxTargets ==
  {[platform |-> Direct3D_SM65, stage |-> Vertex],
   [platform |-> Direct3D_SM65, stage |-> Fragment],
   [platform |-> Direct3D_SM65, stage |-> Compute],
   [platform |-> Metal, stage |-> Compute],
   [platform |-> Vulkan, stage |-> UnknownStage]}

Optional(S) == {<<>>} \cup {<<x>> : x \in S}

WrapOptions ==
  [dxilBytes : ByteStrings, hash : Optional(HashSet32 \cup HashSet64),
   uniforms : Optional({<<UniformU>>}), attributes : {<<>>}, size : {<<>>}]
  \cup [dxilBytes : {<<1>>}, hash : {<<>>}, uniforms : {<<>>},
        attributes : {<<<<>>>>, <<<<5, 513>>>>}, size : {<<0>>, <<65535>>}]

(***************************************************************************)
(* State machine.  A session takes bytes (origin "wire") through read and  *)
(* write, or an object (origin "memory") through write and read.           *)
(***************************************************************************)
Idle ==
  /\ pc = "idle" /\ level = "none" /\ ctx = Null
  /\ data = Null /\ decoded = Null /\ written = Null /\ reread = Null

Ok(v) == [err |-> NoError, why |-> "", val |-> v]

ParseSupportedPlatforms ==
  /\ pc = "idle"
  /\ \E s \in BitStrings, v \in Versions :
       /\ data' = s
       /\ ctx' = [origin |-> "wire", version |-> v]
       /\ decoded' = Ok(parseSupportedPlatforms(s, v))
  /\ pc' = "read" /\ level' = "supportedPlatforms"
  /\ UNCHANGED <<written, reread>>

GetSupportedPlatformsBitString ==
  /\ pc = "read" /\ level = "supportedPlatforms"
  /\ written' = WOk(getSupportedPlatformsBitString(decoded.val, ctx.version))
  /\ pc' = "written"
  /\ UNCHANGED <<level, ctx, data, decoded, reread>>

InitPlatforms == Idle

NextPlatforms == ParseSupportedPlatforms \/ GetSupportedPlatformsBitString

SpecPlatforms == InitPlatforms /\ [][NextPlatforms]_vars

ReadBgfxShader ==
  /\ pc = "idle"
  /\ \E x \in BgfxFiles, t \in BgfxTargets :
       /\ data' = x
       /\ ctx' = [origin |-> "wire", platform |-> t.platform, stage |-> t.stage]
       /\ decoded' = readBgfxShader(x, t.platform, t.stage)
  /\ pc' = "read" /\ level' = "bgfxShader"
  /\ UNCHANGED <<written, reread>>

WrapDxilAsBgfxShader ==
  /\ pc = "idle"
  /\ \E options \in WrapOptions, t \in BgfxTargets :
       /\ ctx' = [origin |-> "memory", platform |-> t.platform, stage |-> t.stage]
       /\ decoded' = Ok(wrapDxilAsBgfxShader(options))
  /\ pc' = "built" /\ level' = "bgfxShader"
  /\ UNCHANGED <<data, written, reread>>

WriteBgfxShader ==
  /\ pc \in {"read", "built"} /\ level = "bgfxShader"
  /\ decoded.err = NoError
  /\ written' = WOk(writeBgfxShader(ctx.platform, ctx.stage, decoded.val))
  /\ pc' = "written"
  /\ UNCHANGED <<level, ctx, data, decoded, reread>>

ReadBackBgfxShader ==
  /\ pc = "written" /\ level = "bgfxShader"
  /\ written.err = NoError
  /\ reread' = readBgfxShader(written.bytes, ctx.platform, ctx.stage)
  /\ pc' = "reread"
  /\ UNCHANGED <<level, ctx, data, decoded, written>>

InitBgfx == Idle

NextBgfx ==
  ReadBgfxShader \/ WrapDxilAsBgfxShader \/ WriteBgfxShader \/ ReadBackBgfxShader

SpecBgfx == InitBgfx /\ [][NextBgfx]_vars

(***************************************************************************)
(* ShaderDefinition sessions.                                              *)
(***************************************************************************)
Bogus == <<66, 111, 103, 117, 115>>

InputA ==
  [name |-> <<97>>, type |-> 1, semantic |-> [index |-> 2, subIndex |-> 0],
   perInstance |-> FALSE, precision |-> 2, interpolation |-> InterpolationNone]

\* InputA as it lies in a file
InputAFile == Str(<<97>>) \o <<1, 2, 0, 0, 1, 2, 0>>

DefFile(stageName, platformName, stageIndex, platformIndex, inputFiles, hash, bgfx) ==
  Str(stageName) \o Str(platformName) \o <<stageIndex, platformIndex>>
    \o U16(Len(inputFiles)) \o Concat(inputFiles) \o hash \o U32(Len(bgfx)) \o bgfx

\* the wrapper a definition with these names holds
BgfxFileFor(stageName, platformName, hash) ==
  BgfxFile(IF stageName = SHADER_STAGE_NAMES[Vertex] THEN VSH
           ELSE IF stageName = SHADER_STAGE_NAMES[Compute] THEN CSH ELSE FSH,
           IF stageName = SHADER_STAGE_NAMES[Compute] THEN 3 ELSE 5,
           hash, <<>>,
           IF stageName = SHADER_STAGE_NAMES[Compute]
              /\ platformName = SHADER_PLATFORM_NAMES[Metal]
           THEN <<1, 2, 770>> ELSE <<>>,
           <<1, 2>>, 0, <<>>, <<>>)

DefStageNames == {SHADER_STAGE_NAMES[Vertex], SHADER_STAGE_NAMES[Compute], Bogus}

DefPlatformNames ==
  {SHADER_PLATFORM_NAMES[Direct3D_SM65], SHADER_PLATFORM_NAMES[ESSL_300],
   SHADER_PLATFORM_NAMES[ESSL_310], SHADER_PLATFORM_NAMES[Metal], Bogus}

DefPlatforms == {Direct3D_SM65, ESSL_300, ESSL_310, Metal}

\* fields of a definition in a file: string at offset off, and where it ends
WireStr(bytes, off) == SubSeq(bytes, off + 5, off + 4 + bytes[off + 1])

WireStrEnd(bytes, off) == off + 4 + bytes[off + 1]

WireStageName(bytes) == WireStr(bytes, 0)

WirePlatformName(bytes) == WireStr(bytes, WireStrEnd(bytes, 0))

WireStageIndex(bytes) == bytes[WireStrEnd(bytes, WireStrEnd(bytes, 0)) + 1]

WirePlatformIndex(bytes) == bytes[WireStrEnd(bytes, WireStrEnd(bytes, 0)) + 2]

ReadShaderDefinition ==
  /\ pc = "idle"
  /\ \E stageName \in DefStageNames, platformName \in DefPlatformNames,
        stageIndex \in {Vertex, Compute}, platformIndex \in {3, 8, 9, 10},
        inputFiles \in {<<>>, <<InputAFile>>}, hash \in HashSet64, v \in Versions :
       LET x == DefFile(stageName, platformName, stageIndex, platformIndex, inputFiles,
                        hash, BgfxFileFor(stageName, platformName, <<1, 2, 3, 4>>))
           g == readShaderDefinition(BinaryReader(x), v)
       IN /\ data' = x
          /\ ctx' = [origin |-> "wire", version |-> v, hash |-> hash,
                     bgfxHash |-> <<1, 2, 3, 4>>]
          /\ decoded' = Result(g.r, g.v)
  /\ pc' = "read" /\ level' = "shaderDefinition"
  /\ UNCHANGED <<written, reread>>

\* an object literal of the interface ShaderDefinition
NewShaderDefinition ==
  /\ pc = "idle"
  /\ \E stage \in {Vertex, Fragment, Compute}, platform \in DefPlatforms,
        inputs \in {<<>>, <<InputA>>}, hash \in HashSet64,
        bgfxHash \in HashSet32 \cup {<<0, 0, 0, 0, 1, 0, 0, 0>>}, v \in Versions :
       /\ ctx' = [origin |-> "memory", version |-> v, hash |-> hash, bgfxHash |-> bgfxHash]
       /\ decoded' = Ok([stage |-> stage, platform |-> platform, inputs |-> inputs,
                         hash |-> hash,
                         bgfxShader |-> wrapDxilAsBgfxShader(
                           [dxilBytes |-> <<1, 2>>, hash |-> <<bgfxHash>>,
                            uniforms |-> <<>>, attributes |-> <<>>, size |-> <<>>])])
  /\ pc' = "built" /\ level' = "shaderDefinition"
  /\ UNCHANGED <<data, written, reread>>

WriteShaderDefinition ==
  /\ pc \in {"read", "built"} /\ level = "shaderDefinition"
  /\ decoded.err = NoError
  /\ written' = writeShaderDefinition(decoded.val, ctx.version)
  /\ pc' = "written"
  /\ UNCHANGED <<level, ctx, data, decoded, reread>>

ReadBackShaderDefinition ==
  /\ pc = "written" /\ level = "shaderDefinition"
  /\ written.err = NoError
  /\ LET g == readShaderDefinition(BinaryReader(written.bytes), ctx.version)
     IN reread' = Result(g.r, g.v)
  /\ pc' = "reread"
  /\ UNCHANGED <<level, ctx, data, decoded, written>>

InitDefinition == Idle

NextDefinition ==
  \/ ReadShaderDefinition
  \/ NewShaderDefinition
  \/ WriteShaderDefinition
  \/ ReadBackShaderDefinition

SpecDefinition == InitDefinition /\ [][NextDefinition]_vars

(***************************************************************************)
(* Material sessions: objects.                                             *)
(***************************************************************************)
F32(a) == <<0, 0, a, 63>>

BufferA ==
  [name |-> <<98>>, reg1 |-> 1, access |-> 0, precision |-> 1, unorderedAccess |-> FALSE,
   type |-> 2, textureFormat |-> <<>>, alwaysOne |-> <<1, 0, 0, 0>>, reg2 |-> 1,
   samplerState |-> <<[filter |-> 1, wrapping |-> 0]>>, defaultTexture |-> <<100>>,
   texturePath |-> <<>>, customTypeInfo |-> <<[struct |-> <<115>>, size |-> <<8, 0, 0, 0>>]>>]

UniformA ==
  [name |-> <<117>>, type |-> Vec4, count |-> <<1, 0, 0, 0>>,
   default |-> <<F32(128), F32(0), F32(64), F32(192)>>]

UniformE == [name |-> <<101>>, type |-> External, count |-> Repeat(0, 4), default |-> <<>>]

BgfxObj(hash, groupSize, tailed) ==
  [hash |-> hash, uniforms |-> <<UniformU>>, groupSize |-> groupSize,
   shaderBytes |-> <<1, 2>>, attributes |-> IF tailed THEN <<5, 513>> ELSE <<>>,
   size |-> IF tailed THEN 7 ELSE -1]

DefObj(stage, platform, bgfxShader) ==
  [stage |-> stage, platform |-> platform,
   inputs |-> IF stage = Vertex THEN <<InputA>> ELSE <<>>,
   hash |-> <<1, 2, 3, 4, 5, 6, 7, 8>>, bgfxShader |-> bgfxShader]

Entry(k, val) == <<k, val>>

PassObj(framebufferBinding, defaultVariant, variants) ==
  [name |-> <<80>>,
   supportedPlatforms |-> [platforms |-> [p \in ShaderPlatform |-> p % 2 = 0]],
   fallbackPass |-> <<70>>, defaultBlendMode |-> 2, defaultVariant |-> defaultVariant,
   framebufferBinding |-> framebufferBinding, variants |-> variants]

VariantsObj(aliasPlatform, computeBgfx, fragmentBgfx) ==
  <<[isSupported |-> TRUE, flags |-> <<Entry(<<102>>, <<49>>)>>,
     shaders |-> <<DefObj(Vertex, Direct3D_SM65, BgfxObj(<<1, 2, 3, 4>>, <<>>, TRUE)),
                   DefObj(Fragment, aliasPlatform, fragmentBgfx)>>],
    [isSupported |-> FALSE, flags |-> <<>>,
     shaders |-> <<DefObj(Compute, Metal, computeBgfx)>>]>>

Key16 == [i \in 1..16 |-> i]

Nonce12 == [i \in 1..12 |-> 2 * i]

FullPartial(v) ==
  [version |-> v, name |-> <<77, 233>>, parent |-> <<80>>, buffers |-> <<BufferA>>,
   uniforms |-> <<UniformA, UniformE>>,
   uniformOverrides |-> <<Entry(<<65>>, <<120>>)>>,
   passes |-> <<PassObj(IF v >= 23 THEN <<1, 0, 0, 0>> ELSE Repeat(0, 4),
                        <<Entry(<<49>>, <<121>>), Entry(<<102>>, <<49>>)>>,
                        VariantsObj(ESSL_310, BgfxObj(Repeat(255, 4), <<1, 2, 770>>, FALSE),
                                    BgfxObj(Repeat(0, 4), <<>>, FALSE)))>>]

PassesWith(v, aliasPlatform, computeBgfx, fragmentBgfx) ==
  <<PassObj(IF v >= 23 THEN <<1, 0, 0, 0>> ELSE Repeat(0, 4), <<>>,
            VariantsObj(aliasPlatform, computeBgfx, fragmentBgfx))>>

\* the partial objects handed to createMaterial
Partials(v) ==
  {[version |-> v], FullPartial(v),
   [version |-> v, name |-> CoreBuiltins, uniforms |-> <<UniformE>>],
   [FullPartial(v) EXCEPT !.passes = PassesWith(v, ESSL_300,
      BgfxObj(<<9, 9, 9, 9>>, <<0, 0, 0>>, TRUE), BgfxObj(Repeat(0, 4), <<>>, TRUE))],
   [encryption |-> SIMPLE_PASSPHRASE, encryptionKey |-> Key16,
    encryptionNonce |-> Nonce12] @@ FullPartial(v),
   \* objects the types allow and the format cannot hold
   [FullPartial(v) EXCEPT !.passes = PassesWith(v, ESSL_310,
      BgfxObj(Repeat(0, 4), <<1, 2, 770>>, FALSE),
      BgfxObj(<<0, 0, 0, 0, 1, 0, 0, 0>>, <<>>, FALSE))],
   [FullPartial(v) EXCEPT !.passes = PassesWith(v, ESSL_310,
      BgfxObj(Repeat(0, 4), <<>>, FALSE), BgfxObj(Repeat(0, 4), <<>>, FALSE))],
   [FullPartial(v) EXCEPT !.passes = PassesWith(22, ESSL_310,
      BgfxObj(Repeat(0, 4), <<1, 2, 770>>, FALSE),
      BgfxObj(Repeat(0, 4), <<7>>, FALSE))],
   [FullPartial(v) EXCEPT !.name = CoreBuiltins],
   [encryption |-> KEY_PAIR] @@ FullPartial(v),
   [encryption |-> SIMPLE_PASSPHRASE, encryptionKey |-> <<1, 2, 3>>,
    encryptionNonce |-> Nonce12] @@ FullPartial(v)}

\* the shaders the compilation pipeline hands to buildMaterial
CompiledShaders(platform) ==
  {<<>>,
   <<[stage |-> Vertex, platform |-> platform, inputs |-> <<InputA>>,
      bgfxShader |-> wrapDxilAsBgfxShader([dxilBytes |-> <<1, 2>>, hash |-> <<>>,
                       uniforms |-> <<>>, attributes |-> <<>>, size |-> <<>>])]>>,
   <<[stage |-> Vertex, platform |-> platform, inputs |-> <<>>,
      bgfxShader |-> wrapDxilAsBgfxShader([dxilBytes |-> <<1>>, hash |-> <<<<1, 2, 3, 4>>>>,
                       uniforms |-> <<<<UniformU>>>>, attributes |-> <<<<5>>>>,
                       size |-> <<7>>])],
     [stage |-> Fragment, platform |-> platform, inputs |-> <<>>,
      bgfxShader |-> wrapDxilAsBgfxShader([dxilBytes |-> <<>>, hash |-> <<>>,
                       uniforms |-> <<>>, attributes |-> <<>>, size |-> <<>>])]>>,
   <<[stage |-> Compute, platform |-> platform, inputs |-> <<>>,
      bgfxShader |-> wrapDxilAsBgfxShader([dxilBytes |-> <<3>>, hash |-> <<>>,
                       uniforms |-> <<>>, attributes |-> <<>>, size |-> <<>>])]>>}

PassDefinitions ==
  [name : {<<80>>}, shaders : CompiledShaders(Direct3D_SM65) \cup CompiledShaders(Direct3D_SM60),
   flags : Optional({<<Entry(<<102>>, <<49>>)>>}), defaultBlendMode : Optional({2})]

MaterialDefinitions ==
  [name : {<<77>>}, version : Optional(Versions),
   passes : {<<>>} \cup {<<p>> : p \in PassDefinitions}
            \cup {<<p, p>> : p \in PassDefinitions}]

(***************************************************************************)
(* Material sessions: files.                                               *)
(***************************************************************************)
BufferAFile ==
  Str(<<98>>) \o U16(1) \o <<0, 1, 0, 2>> \o Str(<<>>) \o U32(1) \o <<1>> \o <<1, 1>>
    \o <<1>> \o Str(<<100>>) \o <<0>> \o <<1>> \o Str(<<115>>) \o U32(8)

UniformAFile ==
  Str(<<117>>) \o U16(Vec4) \o U32(1) \o <<1>>
    \o F32(128) \o F32(0) \o F32(64) \o F32(192)

UniformEFile == Str(<<101>>) \o U16(External)

EntriesFile(entries) ==
  Concat([i \in 1..Len(entries) |-> Str(entries[i][1]) \o Str(entries[i][2])])

VariantFile(isSupported, flags, defFiles) ==
  <<isSupported>> \o U16(Len(flags)) \o U16(Len(defFiles)) \o EntriesFile(flags)
    \o Concat(defFiles)

PassFile(v, bitString, defaultVariant, variantFiles) ==
  Str(<<80>>) \o Str(bitString) \o Str(<<70>>) \o <<1>> \o U16(2)
    \o U16(Len(defaultVariant)) \o EntriesFile(defaultVariant)
    \o (IF v >= 23 THEN U32(1) ELSE <<>>)
    \o U16(Len(variantFiles)) \o Concat(variantFiles)

HeadFile(v, tag) ==
  MAGIC \o Str(COMPILED_MATERIAL_DEFINITION) \o Limbs(v, 8) \o tag

\* overrides is <<>> when the file has no overrides section
BodyFile(name, parent, bufferFiles, uniformFiles, overrides, passFiles) ==
  Str(name) \o (IF parent = <<>> THEN <<0>> ELSE <<1>> \o Str(parent))
    \o <<Len(bufferFiles)>> \o Concat(bufferFiles)
    \o U16(Len(uniformFiles)) \o Concat(uniformFiles)
    \o (IF overrides = <<>> THEN <<>>
        ELSE U16(Len(overrides[1])) \o EntriesFile(overrides[1]))
    \o U16(Len(passFiles)) \o Concat(passFiles)
    \o MAGIC

ENON == <<69, 78, 79, 78>>                  \* "NONE" as stored

LPMS == <<76, 80, 77, 83>>                  \* "SMPL" as stored

\* the wire indices the files of a version use for the platforms of the model
Essl310Index(v) == IF v >= 25 THEN 8 ELSE 9

MetalIndex(v) == IF v >= 25 THEN 9 ELSE 10

\* characters in the bit string of a pass: one per wire index of the version
BitCount(v) == IF v >= 25 THEN 14 ELSE 15

VertexDefFile(stageName, platformName) ==
  DefFile(stageName, platformName, Vertex, 3, <<InputAFile>>, <<1, 2, 3, 4, 5, 6, 7, 8>>,
          BgfxFile(VSH, 5, <<1, 2, 3, 4>>, <<UniformU>>, <<>>, <<1, 2>>, 0,
                   <<[attributes |-> <<5, 513>>, size |-> 7]>>, <<>>))

FragmentDefFile(platformName, platformIndex) ==
  DefFile(SHADER_STAGE_NAMES[Fragment], platformName, Fragment, platformIndex, <<>>,
          Repeat(255, 8),
          BgfxFile(FSH, 5, Repeat(0, 4), <<>>, <<>>, <<>>, 0, <<>>, <<>>))

ComputeDefFile(v) ==
  DefFile(SHADER_STAGE_NAMES[Compute], SHADER_PLATFORM_NAMES[Metal], Compute, MetalIndex(v),
          <<>>, Repeat(0, 8),
          BgfxFile(CSH, 3, Repeat(255, 4), <<UniformU>>, <<1, 2, 770>>, <<1>>, 0, <<>>, <<>>))

FullBody(v, bitString, flags, vertexDef, fragmentDef) ==
  BodyFile(<<77, 195, 169>>, <<80>>, <<BufferAFile>>, <<UniformAFile, UniformEFile>>,
           <<<<Entry(<<65>>, <<120>>)>>>>,
           <<PassFile(v, bitString, flags,
                      <<VariantFile(1, flags, <<vertexDef, fragmentDef>>),
                        VariantFile(0, <<>>, <<ComputeDefFile(v)>>)>>)>>)

ValidBits(v) == [i \in 1..BitCount(v) |-> IF i % 3 = 0 THEN ZERO ELSE ONE]

GoodVertexDef == VertexDefFile(SHADER_STAGE_NAMES[Vertex], SHADER_PLATFORM_NAMES[Direct3D_SM65])

GoodFragmentDef(v) == FragmentDefFile(SHADER_PLATFORM_NAMES[ESSL_310], Essl310Index(v))

FlagsF == <<Entry(<<102>>, <<49>>)>>

FullFile(v) ==
  HeadFile(v, ENON) \o FullBody(v, ValidBits(v), FlagsF, GoodVertexDef, GoodFragmentDef(v))

\* a container without passes
PlainFile(v) ==
  HeadFile(v, ENON)
    \o BodyFile(<<77>>, <<>>, <<BufferAFile>>, <<UniformAFile>>, <<FlagsF>>, <<>>)

ReplaceAt(s, i, x) == [s EXCEPT ![i] = x]

\* the files read in a session, by the kind of file
Files(v) ==
  [valid |->
     {PlainFile(v), FullFile(v),
      HeadFile(v, ENON) \o BodyFile(CoreBuiltins, <<>>, <<>>, <<UniformEFile>>, <<>>, <<>>),
      HeadFile(v, LPMS) \o Str(Key16) \o Str(Nonce12)
        \o Str(encryptAesGcm(Key16, Nonce12,
                 FullBody(v, ValidBits(v), FlagsF, GoodVertexDef, GoodFragmentDef(v))).bytes),
      HeadFile(v, ENON)
        \o FullBody(v, ValidBits(v), <<Entry(<<50>>, <<120>>), Entry(<<49>>, <<121>>)>>,
                    GoodVertexDef, GoodFragmentDef(v))}
     \cup (IF v >= 25 THEN {}
           ELSE {HeadFile(v, ENON)
                   \o FullBody(v, ValidBits(v), FlagsF, GoodVertexDef,
                               FragmentDefFile(SHADER_PLATFORM_NAMES[ESSL_300], 8))}),
   other |->
     {HeadFile(v, ENON)
        \o FullBody(v, ValidBits(v), FlagsF, GoodVertexDef,
                    FragmentDefFile(SHADER_PLATFORM_NAMES[ESSL_300], i)) : i \in {8, 10}}
     \cup {HeadFile(v, ENON) \o FullBody(v, Repeat(ONE, n), FlagsF, GoodVertexDef,
                                         GoodFragmentDef(v)) : n \in {14, 15}}
     \cup {HeadFile(21, ENON) \o BodyFile(<<77>>, <<>>, <<>>, <<>>, <<<<>>>>, <<>>),
           HeadFile(v, <<82, 80, 89, 75>>)},
   magic |->
     {ReplaceAt(f, i, 0) : f \in {PlainFile(v), FullFile(v)}, i \in {1, 2}}
     \cup {ReplaceAt(f, Len(f) - 7, 0) : f \in {PlainFile(v), FullFile(v)}},
   truncated |->
     {SubSeq(FullFile(v), 1, n) : n \in 0..(Len(FullFile(v)) - 1)},
   enum |->
     {HeadFile(v, ENON)
        \o FullBody(v, ValidBits(v), FlagsF,
                    VertexDefFile(Bogus, SHADER_PLATFORM_NAMES[Direct3D_SM65]),
                    GoodFragmentDef(v)),
      HeadFile(v, ENON)
        \o FullBody(v, ValidBits(v), FlagsF,
                    VertexDefFile(SHADER_STAGE_NAMES[Vertex], Bogus), GoodFragmentDef(v)),
      HeadFile(v, ENON)
        \o FullBody(v, ValidBits(v), FlagsF, GoodVertexDef, FragmentDefFile(Bogus, 8)),
      HeadFile(v, <<88, 88, 88, 88>>)
        \o BodyFile(<<77>>, <<>>, <<>>, <<>>, <<<<>>>>, <<>>)}]

FileKinds == {"valid", "other", "magic", "truncated", "enum"}

(***************************************************************************)
(* Material sessions: actions.                                             *)
(***************************************************************************)
ReadMaterial ==
  /\ pc = "idle"
  /\ \E v \in Versions, kind \in FileKinds :
       \E x \in Files(v)[kind] :
         /\ data' = x
         /\ ctx' = [origin |-> "wire", kind |-> kind]
         /\ decoded' = readMaterial(x)
  /\ pc' = "read" /\ level' = "material"
  /\ UNCHANGED <<written, reread>>

CreateMaterial ==
  /\ pc = "idle"
  /\ \E v \in Versions :
       \E partial \in Partials(v) :
         /\ ctx' = [origin |-> "memory", kind |-> "created"]
         /\ decoded' = Ok(createMaterial(partial))
  /\ pc' = "built" /\ level' = "material"
  /\ UNCHANGED <<data, written, reread>>

BuildMaterial ==
  /\ pc = "idle"
  /\ \E definition \in MaterialDefinitions :
       /\ ctx' = [origin |-> "memory", kind |-> "pipeline"]
       /\ decoded' = Ok(buildMaterial(definition))
  /\ pc' = "built" /\ level' = "material"
  /\ UNCHANGED <<data, written, reread>>

WriteMaterial ==
  /\ pc \in {"read", "built"} /\ level = "material"
  /\ decoded.err = NoError
  /\ written' = writeMaterial(decoded.val)
  /\ pc' = "written"
  /\ UNCHANGED <<level, ctx, data, decoded, reread>>

ReadBackMaterial ==
  /\ pc = "written" /\ level = "material"
  /\ written.err = NoError
  /\ reread' = readMaterial(written.bytes)
  /\ pc' = "reread"
  /\ UNCHANGED <<level, ctx, data, decoded, written>>

InitMaterial == Idle

NextMaterial ==
  \/ ReadMaterial
  \/ CreateMaterial
  \/ BuildMaterial
  \/ WriteMaterial
  \/ ReadBackMaterial

SpecMaterial == InitMaterial /\ [][NextMaterial]_vars

(***************************************************************************)
(* Boolean minimisation (src/boolean/simplify.ts).  An implicant is        *)
(* [mask, value, minterms]; an expression is the string the code builds,   *)
(* a sequence of code points.  The repository holds two builds of          *)
(* findPrimeImplicants, the scalar one and the vectorized one, which       *)
(* visit the pairs of a round in different orders.                         *)
(***************************************************************************)
RECURSIVE BitAnd(_, _)
BitAnd(a, b) ==
  IF a = 0 \/ b = 0 THEN 0
  ELSE (IF a % 2 = 1 /\ b % 2 = 1 THEN 1 ELSE 0) + 2 * BitAnd(a \div 2, b \div 2)

\* a & ~b on 32-bit integers, for 0 <= a, b < 2^31
RECURSIVE BitAndNot(_, _)
BitAndNot(a, b) ==
  IF a = 0 THEN 0
  ELSE (IF a % 2 = 1 /\ b % 2 = 0 THEN 1 ELSE 0) + 2 * BitAndNot(a \div 2, b \div 2)

\* 1 << n, for 0 <= n < 31
Shl1(n) == 2 ^ n

\* implicants[i] and implicants[j] differ in exactly one bit of their mask
Combines(implicants, i, j) ==
  /\ implicants[i].mask = implicants[j].mask
  /\ BitXor(implicants[i].value, implicants[j].value) # 0
  /\ BitAnd(BitXor(implicants[i].value, implicants[j].value),
            BitXor(implicants[i].value, implicants[j].value) - 1) = 0
  /\ BitAnd(BitXor(implicants[i].value, implicants[j].value),
            implicants[i].mask) # 0

\* the pairs i < j that combine and whose mask is in masks, by i and then j
PairsIn(implicants, masks) ==
  Concat([k \in 1..(Len(implicants) * Len(implicants)) |->
    IF /\ (k - 1) \div Len(implicants) < (k - 1) % Len(implicants)
       /\ implicants[(k - 1) \div Len(implicants) + 1].mask \in masks
       /\ Combines(implicants, (k - 1) \div Len(implicants) + 1,
                   ((k - 1) % Len(implicants)) + 1)
    THEN << <<(k - 1) \div Len(implicants) + 1, ((k - 1) % Len(implicants)) + 1>> >>
    ELSE <<>>])

\* the masks of the implicants, each once, in the order of a Map's keys
maskGroups(implicants) ==
  Concat([i \in 1..Len(implicants) |->
    IF \E j \in 1..(i - 1) : implicants[j].mask = implicants[i].mask
    THEN <<>> ELSE <<implicants[i].mask>>])

\* the pairs of one round in the order the build visits them
Pairs(implicants, build) ==
  IF build = "scalar"
  THEN PairsIn(implicants, {implicants[i].mask : i \in 1..Len(implicants)})
  ELSE Concat([g \in 1..Len(maskGroups(implicants)) |->
         PairsIn(implicants, {maskGroups(implicants)[g]})])

Combined(a, b) ==
  [mask |-> BitAndNot(a.mask, BitXor(a.value, b.value)),
   value |-> BitAnd(a.value, BitAndNot(a.mask, BitXor(a.value, b.value))),
   minterms |-> a.minterms \cup b.minterms]

\* the candidates of the pairs, each key (mask, value) kept once
Deduplicated(cands) ==
  Concat([k \in 1..Len(cands) |->
    IF \E h \in 1..(k - 1) :
         cands[h].mask = cands[k].mask /\ cands[h].value = cands[k].value
    THEN <<>> ELSE <<cands[k]>>])

newImplicants(implicants, pairs) ==
  Deduplicated([p \in 1..Len(pairs) |->
    Combined(implicants[pairs[p][1]], implicants[pairs[p][2]])])

Unused(implicants, pairs) ==
  Concat([i \in 1..Len(implicants) |->
    IF \E p \in 1..Len(pairs) : pairs[p][1] = i \/ pairs[p][2] = i
    THEN <<>> ELSE <<implicants[i]>>])

RECURSIVE PrimeRounds(_, _, _)
PrimeRounds(implicants, primeImplicants, build) ==
  IF Len(implicants) = 0 THEN primeImplicants
  ELSE PrimeRounds(newImplicants(implicants, Pairs(implicants, build)),
                   primeImplicants \o Unused(implicants, Pairs(implicants, build)),
                   build)

findPrimeImplicants(minterms, numVars, build) ==
  PrimeRounds([i \in 1..Len(minterms) |->
                 [mask |-> Shl1(numVars) - 1, value |-> minterms[i],
                  minterms |-> {minterms[i]}]],
              <<>>, build)

\* the indices of the prime implicants that cover a minterm
Covering(primeImplicants, minterm) ==
  {i \in 1..Len(primeImplicants) : minterm \in primeImplicants[i].minterms}

Includes(selected, i) == \E k \in 1..Len(selected) : selected[k] = i

\* the state of findMinimalCover: the indices selected, in order, and the
\* minterms not covered yet
Select(c, i, primeImplicants) ==
  [selected |-> Append(c.selected, i),
   uncovered |-> c.uncovered \ primeImplicants[i].minterms]

RECURSIVE Essential(_, _, _, _)
Essential(c, primeImplicants, minterms, k) ==
  IF k > Len(minterms) THEN c
  ELSE IF /\ Cardinality(Covering(primeImplicants, minterms[k])) = 1
          /\ \A i \in Covering(primeImplicants, minterms[k]) :
               ~Includes(c.selected, i)
       THEN Essential(Select(c, The(Covering(primeImplicants, minterms[k])),
                             primeImplicants),
                      primeImplicants, minterms, k + 1)
       ELSE Essential(c, primeImplicants, minterms, k + 1)

Coverage(c, primeImplicants, i) ==
  IF Includes(c.selected, i) THEN 0
  ELSE Cardinality(primeImplicants[i].minterms \cap c.uncovered)

\* the first implicant of the largest coverage, when one covers anything
Best(c, primeImplicants) ==
  {i \in 1..Len(primeImplicants) :
     /\ Coverage(c, primeImplicants, i) > 0
     /\ \A j \in 1..Len(primeImplicants) :
          /\ Coverage(c, primeImplicants, j) <= Coverage(c, primeImplicants, i)
          /\ j < i => Coverage(c, primeImplicants, j) < Coverage(c, primeImplicants, i)}

RECURSIVE Greedy(_, _)
Greedy(c, primeImplicants) ==
  IF c.uncovered = {} \/ Best(c, primeImplicants) = {} THEN c
  ELSE Greedy(Select(c, The(Best(c, primeImplicants)), primeImplicants),
              primeImplicants)

CoverOf(c, primeImplicants) ==
  [k \in 1..Len(c.selected) |-> primeImplicants[c.selected[k]]]

findMinimalCover(primeImplicants, minterms) ==
  CoverOf(Greedy(Essential([selected |-> <<>>,
                            uncovered |-> {minterms[i] : i \in 1..Len(minterms)}],
                           primeImplicants, minterms, 1),
                 primeImplicants),
          primeImplicants)

TrueText == <<84, 114, 117, 101>>          \* "True"
FalseText == <<70, 97, 108, 115, 101>>     \* "False"
AndText == <<32, 38, 32>>                  \* " & "
OrText == <<32, 124, 32>>                  \* " | "
TILDE == 126
LPAREN == 40
RPAREN == 41

\* strs.join(sep)
Join(strs, sep) ==
  Concat([k \in 1..(2 * Len(strs) - 1) |->
    IF k % 2 = 1 THEN strs[(k + 1) \div 2] ELSE sep])

\* sep starts at position i of e
SepAt(e, sep, i) ==
  /\ i + Len(sep) - 1 <= Len(e)
  /\ SubSeq(e, i, i + Len(sep) - 1) = sep

\* p.includes(sep)
StrIncludes(p, sep) == \E i \in 1..Len(p) : SepAt(p, sep, i)

literals(impl, variables) ==
  Concat([i \in 1..Len(variables) |->
    IF BitAnd(impl.mask, Shl1(Len(variables) - i)) = 0 THEN <<>>
    ELSE IF BitAnd(impl.value, Shl1(Len(variables) - i)) # 0
         THEN <<variables[i]>>
         ELSE << <<TILDE>> \o variables[i] >>])

product(impl, variables) ==
  IF Len(literals(impl, variables)) > 0
  THEN Join(literals(impl, variables), AndText)
  ELSE TrueText

Parenthesized(products) ==
  [k \in 1..Len(products) |->
    IF StrIncludes(products[k], AndText) /\ Len(products) > 1
    THEN <<LPAREN>> \o products[k] \o <<RPAREN>>
    ELSE products[k]]

ExpressionOf(products) ==
  IF Len(products) = 0 THEN FalseText
  ELSE IF Len(products) = 1 THEN products[1]
  ELSE Join(Parenthesized(products), OrText)

formatImplicants(implicants, variables) ==
  [expression |->
     ExpressionOf([k \in 1..Len(implicants) |-> product(implicants[k], variables)]),
   atoms |->
     {variables[i] : i \in {i \in 1..Len(variables) :
        \E k \in 1..Len(implicants) :
          BitAnd(implicants[k].mask, Shl1(Len(variables) - i)) # 0}}]

\* a minimiser with the two constant results exchanged
simplifyLogicSwapped(variables, minterms, build) ==
  IF Len(minterms) = 0 THEN [expression |-> TrueText, atoms |-> {}]
  ELSE IF Len(minterms) = Shl1(Len(variables))
  THEN [expression |-> FalseText, atoms |-> {}]
  ELSE formatImplicants(
         findMinimalCover(findPrimeImplicants(minterms, Len(variables), build),
                          minterms),
         variables)

simplifyLogic(variables, minterms, build) ==
  IF Len(minterms) = 0 THEN [expression |-> FalseText, atoms |-> {}]
  ELSE IF Len(minterms) = Shl1(Len(variables))
  THEN [expression |-> TrueText, atoms |-> {}]
  ELSE formatImplicants(
         findMinimalCover(findPrimeImplicants(minterms, Len(variables), build),
                          minterms),
         variables)

(***************************************************************************)
(* The meaning of an expression in the "A & B | ~C" format: a disjunction  *)
(* of products, a product in parentheses when it has several literals, a   *)
(* literal a name, a name after ~, or True.                                *)
(***************************************************************************)
PieceEnd(e, sep, s) ==
  IF \E i \in s..Len(e) : SepAt(e, sep, i)
  THEN (CHOOSE i \in s..Len(e) :
          SepAt(e, sep, i) /\ \A j \in s..(i - 1) : ~SepAt(e, sep, j)) - 1
  ELSE Len(e)

\* e.split(sep), as a set
Pieces(e, sep) ==
  {SubSeq(e, s, PieceEnd(e, sep, s)) :
     s \in {1} \cup {i + Len(sep) : i \in {i \in 1..Len(e) : SepAt(e, sep, i)}}}

Unparenthesized(p) ==
  IF Len(p) >= 2 /\ p[1] = LPAREN /\ p[Len(p)] = RPAREN
  THEN SubSeq(p, 2, Len(p) - 1) ELSE p

\* the assignment of index to the variables, the first variable the most
\* significant bit
Assignment(variables, index) ==
  [name \in {variables[i] : i \in 1..Len(variables)} |->
     BitAnd(index, Shl1(Len(variables) - IndexOf(variables, name))) # 0]

LiteralHolds(l, value) ==
  IF l = TrueText THEN TRUE
  ELSE IF l = FalseText THEN FALSE
  ELSE IF l[1] = TILDE THEN ~value[Tail(l)]
  ELSE value[l]

Holds(e, value) ==
  \E p \in Pieces(e, OrText) :
    \A l \in Pieces(Unparenthesized(p), AndText) : LiteralHolds(l, value)

(***************************************************************************)
(* Minimisation sessions: one call of simplifyLogic by either build.       *)
(***************************************************************************)
MaxListLen == 3

VarA == <<65>>        \* "A"
VarB == <<66>>        \* "B"
VarC == <<67>>        \* "C"
VarX1 == <<88, 49>>   \* "X1"

VariableLists ==
  {<<>>, <<VarA>>, <<VarA, VarB>>, <<VarX1, VarA>>, <<VarA, VarB, VarC>>,
   <<VarC, VarX1, VarB>>}

\* the minterm lists of n variables: every set of indices in ascending
\* order, and every list of at most MaxListLen indices
MintermLists(n) ==
  {Concat([v \in 1..Shl1(n) |-> IF v - 1 \in S THEN <<v - 1>> ELSE <<>>]) :
     S \in SUBSET (0..(Shl1(n) - 1))}
  \cup UNION {[1..len -> 0..(Shl1(n) - 1)] : len \in 0..MaxListLen}

Builds == {"scalar", "vectorized"}

SimplifyLogic ==
  /\ pc = "idle"
  /\ \E variables \in VariableLists, build \in Builds :
       \E minterms \in MintermLists(Len(variables)) :
         /\ data' = [variables |-> variables, minterms |-> minterms]
         /\ ctx' = [origin |-> "memory", build |-> build]
         /\ decoded' = Ok(simplifyLogic(variables, minterms, build))
  /\ pc' = "simplified" /\ level' = "expression"
  /\ UNCHANGED <<written, reread>>

InitSimplify == Idle

NextSimplify == SimplifyLogic

SpecSimplify == InitSimplify /\ [][NextSimplify]_vars

(***************************************************************************)
(* Encryption sessions: a plaintext is encrypted and the result decrypted  *)
(* under the same key and nonce.                                           *)
(***************************************************************************)
MaxPlaintext == 3

Keys ==
  {Key16, [i \in 1..24 |-> (5 * i) % 256], [i \in 1..32 |-> 255 - i],
   [i \in 1..8 |-> i]}

Nonces == {Nonce12, [i \in 1..16 |-> 16 * i - 1], <<1, 2, 3, 4>>}

Plaintexts == UNION {[1..n -> {0, 127, 255}] : n \in 0..MaxPlaintext}

EncryptAesGcm ==
  /\ pc = "idle"
  /\ \E key \in Keys, nonce \in Nonces, plaintext \in Plaintexts :
       /\ data' = plaintext
       /\ ctx' = [origin |-> "memory", key |-> key, nonce |-> nonce]
       /\ written' = encryptAesGcm(key, nonce, plaintext)
  /\ pc' = "written" /\ level' = "cipher"
  /\ UNCHANGED <<decoded, reread>>

DecryptAesGcm ==
  /\ pc = "written" /\ level = "cipher"
  /\ written.err = NoError
  /\ reread' = decryptAesGcm(ctx.key, ctx.nonce, written.bytes)
  /\ pc' = "reread"
  /\ UNCHANGED <<level, ctx, data, decoded, written>>

InitEncryption == Idle

NextEncryption == EncryptAesGcm \/ DecryptAesGcm

SpecEncryption == InitEncryption /\ [][NextEncryption]_vars

(***************************************************************************)
(* Diffing of permutations (src/decompiler/diffing.ts) and their encoding  *)
(* (src/decompiler/encoded-shader.ts).  A code is a string, a sequence of  *)
(* code points; a ShaderFlags object is named by a number; a diff entry    *)
(* [op, val] is a record.                                                  *)
(***************************************************************************)
NEWLINE == 10

Newlines(code) == {i \in 1..Len(code) : code[i] = NEWLINE}

\* the position of the j-th newline; 0 before the first and one past the
\* code after the last
NthNewline(code, j) ==
  IF j = 0 THEN 0
  ELSE IF j > Cardinality(Newlines(code)) THEN Len(code) + 1
  ELSE CHOOSE i \in Newlines(code) : Cardinality({h \in Newlines(code) : h <= i}) = j

\* code.split("\n")
SplitLines(code) ==
  [j \in 1..(Cardinality(Newlines(code)) + 1) |->
     SubSeq(code, NthNewline(code, j - 1) + 1, NthNewline(code, j) - 1)]

\* the first index of x in seq, counted from 0, or -1
JsIndexOf(seq, x) ==
  IF \E i \in 1..Len(seq) : seq[i] = x
  THEN (CHOOSE i \in 1..Len(seq) : seq[i] = x /\ \A j \in 1..(i - 1) : seq[j] # x) - 1
  ELSE -1

\* the Map of insertFlags: the codes in the order of their first insertion,
\* each with the flags of the permutations that have the code
insertFlags(table, code, flags) ==
  IF \E i \in 1..Len(table) : table[i].code = code
  THEN [i \in 1..Len(table) |->
          IF table[i].code = code
          THEN [table[i] EXCEPT !.flagList = Append(@, flags)] ELSE table[i]]
  ELSE Append(table, [code |-> code, flagList |-> <<flags>>])

RECURSIVE Uniquified(_, _, _)
Uniquified(table, permutations, p) ==
  IF p > Len(permutations) THEN table
  ELSE Uniquified(insertFlags(table, permutations[p].code, permutations[p].flags),
                  permutations, p + 1)

\* the loop over the lines of a code: [encodedLines, lineDecodeTable]
RECURSIVE EncodeLines(_, _, _)
EncodeLines(e, lines, i) ==
  IF i > Len(lines) THEN e
  ELSE IF JsIndexOf(e.lineDecodeTable, lines[i]) = -1
  THEN EncodeLines([encodedLines |-> Append(e.encodedLines, Len(e.lineDecodeTable)),
                    lineDecodeTable |-> Append(e.lineDecodeTable, lines[i])],
                   lines, i + 1)
  ELSE EncodeLines([e EXCEPT !.encodedLines =
                      Append(@, JsIndexOf(e.lineDecodeTable, lines[i]))],
                   lines, i + 1)

\* the loop over the table: [codes, flags, lineDecodeTable]
RECURSIVE EncodeTable(_, _, _)
EncodeTable(s, table, t) ==
  IF t > Len(table) THEN s
  ELSE EncodeTable(
         [codes |-> Append(s.codes,
                      EncodeLines([encodedLines |-> <<>>,
                                   lineDecodeTable |-> s.lineDecodeTable],
                                  SplitLines(table[t].code), 1).encodedLines),
          flags |-> Append(s.flags, table[t].flagList),
          lineDecodeTable |->
            EncodeLines([encodedLines |-> <<>>, lineDecodeTable |-> s.lineDecodeTable],
                        SplitLines(table[t].code), 1).lineDecodeTable],
         table, t + 1)

encodePermutations(table, lineDecodeTable) ==
  EncodeTable([codes |-> <<>>, flags |-> <<>>, lineDecodeTable |-> lineDecodeTable],
              table, 1)

\* the main shader of encodeShader; the permutations of the model have no
\* functions
encodeShader(permutations) ==
  [mainShader |->
     [codes |-> encodePermutations(Uniquified(<<>>, permutations, 1), <<>>).codes,
      flags |-> encodePermutations(Uniquified(<<>>, permutations, 1), <<>>).flags],
   lineDecodeTable |->
     encodePermutations(Uniquified(<<>>, permutations, 1), <<>>).lineDecodeTable]

\* Myers diff.  v is the Int32Array of 2 * max + 1 entries, indexed from 0;
\* old[x] of the code is oldArr[x + 1] here.
StartX(v, offset, d, k) ==
  IF k = -d \/ (k # d /\ v[offset + k - 1] < v[offset + k + 1])
  THEN v[offset + k + 1]
  ELSE v[offset + k - 1] + 1

RECURSIVE Snake(_, _, _, _)
Snake(oldArr, newArr, x, y) ==
  IF x < Len(oldArr) /\ y < Len(newArr) /\ oldArr[x + 1] = newArr[y + 1]
  THEN Snake(oldArr, newArr, x + 1, y + 1)
  ELSE x

\* x after the diagonal k of round d
EndX(oldArr, newArr, v, offset, d, k) ==
  Snake(oldArr, newArr, StartX(v, offset, d, k), StartX(v, offset, d, k) - k)

\* for (k = -d; k <= d; k += 2): [v, found]
RECURSIVE Diagonals(_, _, _, _, _, _)
Diagonals(oldArr, newArr, v, offset, d, k) ==
  IF k > d THEN [v |-> v, found |-> FALSE]
  ELSE IF /\ EndX(oldArr, newArr, v, offset, d, k) >= Len(oldArr)
          /\ EndX(oldArr, newArr, v, offset, d, k) - k >= Len(newArr)
  THEN [v |-> [v EXCEPT ![offset + k] = EndX(oldArr, newArr, v, offset, d, k)],
        found |-> TRUE]
  ELSE Diagonals(oldArr, newArr,
                 [v EXCEPT ![offset + k] = EndX(oldArr, newArr, v, offset, d, k)],
                 offset, d, k + 2)

\* for (d = 0; d <= max && !found; d++): the trace
RECURSIVE Rounds(_, _, _, _, _, _)
Rounds(oldArr, newArr, v, trace, offset, d) ==
  IF d > Len(oldArr) + Len(newArr) THEN trace
  ELSE IF Diagonals(oldArr, newArr, v, offset, d, -d).found THEN Append(trace, v)
  ELSE Rounds(oldArr, newArr, Diagonals(oldArr, newArr, v, offset, d, -d).v,
              Append(trace, v), offset, d + 1)

PrevK(tv, offset, d, k) ==
  IF k = -d \/ (k # d /\ tv[offset + k - 1] < tv[offset + k + 1])
  THEN k + 1 ELSE k - 1

\* while (x > prevX && y > prevY): a position [x, y, ops]
RECURSIVE SnakeBack(_, _, _, _)
SnakeBack(b, prevX, prevY, oldArr) ==
  IF b.x > prevX /\ b.y > prevY
  THEN SnakeBack([x |-> b.x - 1, y |-> b.y - 1,
                  ops |-> Append(b.ops, [op |-> "k", val |-> oldArr[b.x]])],
                 prevX, prevY, oldArr)
  ELSE b

Edit(b, d, prevX, oldArr, newArr) ==
  IF d = 0 THEN b
  ELSE IF b.x = prevX
  THEN [x |-> b.x, y |-> b.y - 1,
        ops |-> Append(b.ops, [op |-> "i", val |-> newArr[b.y]])]
  ELSE [x |-> b.x - 1, y |-> b.y,
        ops |-> Append(b.ops, [op |-> "r", val |-> oldArr[b.x]])]

\* for (d = trace.length - 1; d >= 0; d--)
RECURSIVE Backtrack(_, _, _, _, _, _)
Backtrack(b, trace, offset, d, oldArr, newArr) ==
  IF d < 0 THEN b
  ELSE Backtrack(
         Edit(SnakeBack(b,
                trace[d + 1][offset + PrevK(trace[d + 1], offset, d, b.x - b.y)],
                trace[d + 1][offset + PrevK(trace[d + 1], offset, d, b.x - b.y)]
                  - PrevK(trace[d + 1], offset, d, b.x - b.y),
                oldArr),
              d,
              trace[d + 1][offset + PrevK(trace[d + 1], offset, d, b.x - b.y)],
              oldArr, newArr),
         trace, offset, d - 1, oldArr, newArr)

myersDiff(oldArr, newArr) ==
  IF Len(oldArr) = 0 /\ Len(newArr) = 0 THEN <<>>
  ELSE IF Len(oldArr) = 0 THEN [i \in 1..Len(newArr) |-> [op |-> "i", val |-> newArr[i]]]
  ELSE IF Len(newArr) = 0 THEN [i \in 1..Len(oldArr) |-> [op |-> "r", val |-> oldArr[i]]]
  ELSE Reverse(
         Backtrack([x |-> Len(oldArr), y |-> Len(newArr), ops |-> <<>>],
                   Rounds(oldArr, newArr,
                          [i \in 0..(2 * (Len(oldArr) + Len(newArr))) |-> 0],
                          <<>>, Len(oldArr) + Len(newArr), 0),
                   Len(oldArr) + Len(newArr),
                   Len(Rounds(oldArr, newArr,
                              [i \in 0..(2 * (Len(oldArr) + Len(newArr))) |-> 0],
                              <<>>, Len(oldArr) + Len(newArr), 0)) - 1,
                   oldArr, newArr).ops)

\* currentIndex when the entry j of the diff is visited
currentIndex(diff, j) == Cardinality({h \in 1..(j - 1) : diff[h].op # "i"})

\* a fold that leaves the condition of a kept line as it was
newConditionKeepsOld(diff, j, lineConditions, flagList) ==
  IF diff[j].op = "i" THEN flagList
  ELSE lineConditions[currentIndex(diff, j) + 1]

newCondition(diff, j, lineConditions, flagList) ==
  IF diff[j].op = "i" THEN flagList
  ELSE IF diff[j].op = "r" THEN lineConditions[currentIndex(diff, j) + 1]
  ELSE lineConditions[currentIndex(diff, j) + 1] \o flagList

Merged(c, diff, flagList) ==
  [lines |-> [j \in 1..Len(diff) |-> diff[j].val],
   lineConditions |->
     [j \in 1..Len(diff) |-> newCondition(diff, j, c.lineConditions, flagList)]]

RECURSIVE Folded(_, _, _)
Folded(c, encodedPermutations, p) ==
  IF p > Len(encodedPermutations.codes) THEN c
  ELSE Folded(Merged(c, myersDiff(c.lines, encodedPermutations.codes[p]),
                     encodedPermutations.flags[p]),
              encodedPermutations, p + 1)

diffPermutations(encodedPermutations) ==
  Folded([lines |-> <<>>, lineConditions |-> <<>>], encodedPermutations, 1)

(***************************************************************************)
(* Diffing sessions: permutations are encoded and the encoded permutations *)
(* folded.  The permutation p of a list has the flags p.                   *)
(***************************************************************************)
MaxLines == 3

LineTexts == {<<97>>, <<98>>, <<>>}     \* "a", "b", ""

\* the codes of at most n lines over the texts
Codes(texts, n) ==
  {Join(lines, <<NEWLINE>>) : lines \in UNION {[1..len -> texts] : len \in 1..n}}

\* one or two permutations of any code, or three of short codes
CodeLists ==
  UNION {[1..len -> Codes(LineTexts, MaxLines)] : len \in 1..2}
    \cup [1..3 -> Codes({<<97>>, <<98>>}, MaxLines - 1)]

EncodeShader ==
  /\ pc = "idle"
  /\ \E codes \in CodeLists :
       /\ data' = [p \in 1..Len(codes) |-> [code |-> codes[p], flags |-> p]]
       /\ decoded' = Ok(encodeShader([p \in 1..Len(codes) |->
                                        [code |-> codes[p], flags |-> p]]))
  /\ ctx' = [origin |-> "memory"]
  /\ pc' = "encoded" /\ level' = "permutations"
  /\ UNCHANGED <<written, reread>>

DiffEncodedShader ==
  /\ pc = "encoded" /\ level = "permutations"
  /\ written' = diffPermutations(decoded.val.mainShader)
  /\ pc' = "diffed"
  /\ UNCHANGED <<level, ctx, data, decoded, reread>>

InitDiffing == Idle

NextDiffing == EncodeShader \/ DiffEncodedShader

SpecDiffing == InitDiffing /\ [][NextDiffing]_vars

(***************************************************************************)
(* Expression search (src/decompiler/expression-search.ts).  A ShaderFlags *)
(* object and a FlagDefinition are sequences of entries <<key, value>> in  *)
(* the order of their keys; a token is a record; an ndarray of booleans is *)
(* a tuple; a nullable ndarray is <<>> or <<column>>.                      *)
(***************************************************************************)
COLON == 58

JoinOr == "Or"
JoinAnd == "And"
JoinInitial == "Initial"

\* flags[flagName] === flagValue
FlagIs(flags, flagName, flagValue) ==
  \E i \in 1..Len(flags) : flags[i] = <<flagName, flagValue>>

Token(joinType, isNegative, flagName, flagValue) ==
  [joinType |-> joinType, isNegative |-> isNegative,
   flagName |-> flagName, flagValue |-> flagValue]

ColumnKey(flagName, flagValue) == flagName \o <<COLON>> \o flagValue

createVectorizedContext(flagOutcomes, flagDefinition) ==
  [matchColumns |->
     Concat([d \in 1..Len(flagDefinition) |->
       Concat([v \in 1..Len(flagDefinition[d][2]) |->
         << <<ColumnKey(flagDefinition[d][1], flagDefinition[d][2][v]),
              Concat([n \in 1..Len(flagOutcomes) |->
                <<FlagIs(flagOutcomes[n][2], flagDefinition[d][1],
                         flagDefinition[d][2][v])>>])>> >>])]),
   expectedOutcomes |->
     Concat([n \in 1..Len(flagOutcomes) |-> <<flagOutcomes[n][1]>>]),
   numOutcomes |-> Len(flagOutcomes),
   falseColumn |-> Concat([n \in 1..Len(flagOutcomes) |-> <<FALSE>>])]

logical_not(col) == Concat([n \in 1..Len(col) |-> <<~col[n]>>])
logical_and(a, b) == Concat([n \in 1..Len(a) |-> <<a[n] /\ b[n]>>])
logical_or(a, b) == Concat([n \in 1..Len(a) |-> <<a[n] \/ b[n]>>])

\* matchColumns.get(key) ?? falseColumn; a key set twice holds its last column
ColumnAt(vc, key) ==
  IF \E i \in 1..Len(vc.matchColumns) : vc.matchColumns[i][1] = key
  THEN vc.matchColumns[CHOOSE i \in 1..Len(vc.matchColumns) :
         /\ vc.matchColumns[i][1] = key
         /\ \A j \in (i + 1)..Len(vc.matchColumns) : vc.matchColumns[j][1] # key][2]
  ELSE vc.falseColumn

getTokenColumn(vc, token) ==
  IF token.isNegative
  THEN logical_not(ColumnAt(vc, ColumnKey(token.flagName, token.flagValue)))
  ELSE ColumnAt(vc, ColumnKey(token.flagName, token.flagValue))

extendResult(partialResult, token, tokenCol) ==
  IF partialResult = <<>> THEN tokenCol
  ELSE IF token.joinType = JoinAnd THEN logical_and(partialResult[1], tokenCol)
  ELSE logical_or(partialResult[1], tokenCol)

vectorizedScore(vc, result) ==
  Cardinality({n \in 1..vc.numOutcomes : result[n] = vc.expectedOutcomes[n]})

\* the candidates of one round of fastSearch, in the order of its loops
Candidates(flagDefinition, joinList) ==
  Concat([neg \in 1..2 |->
    Concat([j \in 1..Len(joinList) |->
      Concat([d \in 1..Len(flagDefinition) |->
        Concat([v \in 1..Len(flagDefinition[d][2]) |->
          <<Token(joinList[j], neg = 2, flagDefinition[d][1],
                  flagDefinition[d][2][v])>>])])])])

CandidateScores(vc, partialResult, candidates) ==
  Concat([c \in 1..Len(candidates) |->
    <<vectorizedScore(vc, extendResult(partialResult, candidates[c],
                                        getTokenColumn(vc, candidates[c])))>>])

MaxOf(S) == CHOOSE x \in S : \A y \in S : y <= x

\* the best token of a round and its score: the first candidate that scores
\* more than every candidate before it and more than 0
BestOf(candidates, scores, bestTokenScore) ==
  IF bestTokenScore = 0
  THEN [token |-> Token(JoinInitial, FALSE, <<>>, <<>>), score |-> 0]
  ELSE [token |-> candidates[IndexOf(scores, bestTokenScore)],
        score |-> bestTokenScore]

BestScored(candidates, scores) ==
  BestOf(candidates, scores,
         MaxOf({0} \cup {scores[c] : c \in 1..Len(scores)}))

BestToken(vc, partialResult, candidates) ==
  BestScored(candidates, CandidateScores(vc, partialResult, candidates))

FastPushed(s, vc, best) ==
  [currentExpression |-> Append(s.currentExpression, best.token),
   partialResult |->
     <<extendResult(s.partialResult, best.token, getTokenColumn(vc, best.token))>>,
   bestExpression |->
     IF best.score > s.bestExpressionScore
     THEN Append(s.currentExpression, best.token) ELSE s.bestExpression,
   bestExpressionScore |->
     IF best.score > s.bestExpressionScore THEN best.score ELSE s.bestExpressionScore]

RECURSIVE FastRounds(_, _, _, _, _)
\* the end of a round: s is the state after the push
FastBreak(s, vc, input, iter, maxIterations) ==
  IF s.bestExpressionScore >= Len(input.flags) THEN s
  ELSE FastRounds(s, vc, input, iter + 1, maxIterations)

FastRounds(s, vc, input, iter, maxIterations) ==
  IF iter >= maxIterations THEN s
  ELSE FastBreak(
         FastPushed(s, vc,
           BestToken(vc, s.partialResult,
             Candidates(input.flagDefinition,
               IF s.currentExpression = <<>> THEN <<JoinInitial>>
               ELSE <<JoinOr, JoinAnd>>))),
         vc, input, iter, maxIterations)

SearchOutput(s) == [tokenList |-> s.bestExpression, score |-> s.bestExpressionScore]

fastSearch(input) ==
  SearchOutput(
    FastRounds([currentExpression |-> <<>>, partialResult |-> <<>>,
                bestExpression |-> <<>>, bestExpressionScore |-> 0],
               createVectorizedContext(input.flags, input.flagDefinition),
               input, 0, Len(input.flagDefinition) + 5))

\* flagDef[flagName]
ValuesOf(flagDef, flagName) == flagDef[IndexOf(ObjKeys(flagDef), flagName)][2]

\* the loop of incrementExpression from its i-th token on; the flag
\* definition has a flag
RECURSIVE IncrementFrom(_, _, _)
IncrementFrom(expression, flagDef, i) ==
  IF i > Len(expression)
  THEN Append(expression,
              Token(IF Len(expression) = 0 THEN JoinInitial ELSE JoinOr, FALSE,
                    flagDef[1][1], flagDef[1][2][1]))
  ELSE IF JsIndexOf(ValuesOf(flagDef, expression[i].flagName),
                    expression[i].flagValue) + 1
            < Len(ValuesOf(flagDef, expression[i].flagName))
  THEN [expression EXCEPT ![i].flagValue =
          ValuesOf(flagDef, expression[i].flagName)[
            JsIndexOf(ValuesOf(flagDef, expression[i].flagName),
                      expression[i].flagValue) + 2]]
  ELSE IF JsIndexOf(ObjKeys(flagDef), expression[i].flagName) + 1 < Len(flagDef)
  THEN [expression EXCEPT
          ![i].flagName =
            flagDef[JsIndexOf(ObjKeys(flagDef), expression[i].flagName) + 2][1],
          ![i].flagValue =
            flagDef[JsIndexOf(ObjKeys(flagDef), expression[i].flagName) + 2][2][1]]
  ELSE IF expression[i].joinType = JoinOr
  THEN [expression EXCEPT ![i].flagName = flagDef[1][1],
                          ![i].flagValue = flagDef[1][2][1],
                          ![i].joinType = JoinAnd]
  ELSE IF ~expression[i].isNegative
  THEN [expression EXCEPT ![i].flagName = flagDef[1][1],
                          ![i].flagValue = flagDef[1][2][1],
                          ![i].joinType =
                            IF @ = JoinInitial THEN JoinInitial ELSE JoinOr,
                          ![i].isNegative = TRUE]
  ELSE IncrementFrom(
         [expression EXCEPT ![i].flagName = flagDef[1][1],
                            ![i].flagValue = flagDef[1][2][1],
                            ![i].joinType =
                              IF @ = JoinInitial THEN JoinInitial ELSE JoinOr,
                            ![i].isNegative = FALSE],
         flagDef, i + 1)

incrementExpression(expression, flagDef) == IncrementFrom(expression, flagDef, 1)

RECURSIVE ChainResult(_, _, _, _)
ChainResult(vc, expression, result, i) ==
  IF i > Len(expression) THEN result
  ELSE ChainResult(vc, expression,
                   extendResult(<<result>>, expression[i],
                                getTokenColumn(vc, expression[i])),
                   i + 1)

SlowScore(vc, currentExpression) ==
  IF Len(currentExpression) > 0
  THEN vectorizedScore(vc,
         ChainResult(vc, currentExpression,
                     getTokenColumn(vc, currentExpression[1]), 2))
  ELSE 0

\* One pass of the loop of slowSearch.  performance.now() is the wall clock:
\* the pass at which the time has run out, timedOutAt, is not decided by the
\* inputs.
SlowScored(s, vc, input, timedOutAt, score) ==
  [currentExpression |->
     IF (IF score > s.bestExpressionScore THEN score ELSE s.bestExpressionScore)
          = Len(input.flags)
        \/ s.passes + 1 >= timedOutAt
     THEN s.currentExpression
     ELSE incrementExpression(s.currentExpression, input.flagDefinition),
   bestExpression |->
     IF score > s.bestExpressionScore THEN s.currentExpression ELSE s.bestExpression,
   bestExpressionScore |->
     IF score > s.bestExpressionScore THEN score ELSE s.bestExpressionScore,
   passes |-> s.passes + 1,
   done |-> \/ (IF score > s.bestExpressionScore THEN score
                ELSE s.bestExpressionScore) = Len(input.flags)
            \/ s.passes + 1 >= timedOutAt]

SlowPass(s, vc, input, timedOutAt) ==
  SlowScored(s, vc, input, timedOutAt, SlowScore(vc, s.currentExpression))

\* 2^k passes, or the passes until the break
RECURSIVE SlowRun(_, _, _, _, _)
SlowRun(s, vc, input, timedOutAt, k) ==
  IF s.done THEN s
  ELSE IF k = 0 THEN SlowPass(s, vc, input, timedOutAt)
  ELSE SlowRun(SlowRun(s, vc, input, timedOutAt, k - 1), vc, input, timedOutAt, k - 1)

RECURSIVE SlowLoop(_, _, _, _)
SlowLoop(s, vc, input, timedOutAt) ==
  IF s.done THEN s ELSE SlowLoop(SlowRun(s, vc, input, timedOutAt, 6), vc, input, timedOutAt)

slowSearch(input, timedOutAt) ==
  SearchOutput(
    SlowLoop([currentExpression |-> <<>>, bestExpression |-> <<>>,
              bestExpressionScore |-> 0, passes |-> 0, done |-> FALSE],
             createVectorizedContext(input.flags, input.flagDefinition),
             input, timedOutAt))

\* the result of one input of expressionSearch
Chosen(fastResult, slowResult) ==
  IF \/ slowResult.score > fastResult.score
     \/ /\ slowResult.score = fastResult.score
        /\ Len(slowResult.tokenList) < Len(fastResult.tokenList)
  THEN slowResult
  ELSE fastResult

Preferred(input, fastResult, timedOutAt) ==
  IF fastResult.score >= Len(input.flags) THEN fastResult
  ELSE Chosen(fastResult, slowSearch(input, timedOutAt))

\* timedOutAt[i] is the pass at which the slow search of inputs[i] times out
expressionSearch(inputs, timedOutAt) ==
  Concat([i \in 1..Len(inputs) |->
    <<Preferred(inputs[i], fastSearch(inputs[i]), timedOutAt[i])>>])

(***************************************************************************)
(* Restoring code from its variants (src/decompiler/processing.ts,         *)
(* diffing.ts, flag-definition.ts, grouped-shader.ts, expression-search.ts *)
(* and expression-processing.ts).  Strings are sequences of code points.   *)
(* The codes of the model have no function and no struct: extractFunctions *)
(* finds none, and the main code is the whole shader.                      *)
(***************************************************************************)
SLASH == 47
STAR == 42
UNDERSCORE == 95
BANG == 33
BAR == 124
AMPERSAND == 38
LineTerminators == {10, 13, 8232, 8233}

OffText == <<79, 102, 102>>    \* "Off"
DisabledText == <<68, 105, 115, 97, 98, 108, 101, 100>>    \* "Disabled"
OnText == <<79, 110>>    \* "On"
EnabledText == <<69, 110, 97, 98, 108, 101, 100>>    \* "Enabled"
PassText == <<112, 97, 115, 115>>    \* "pass"
FlagPrefix == <<102, 95>>    \* "f_"
PassSuffix == <<95, 80, 65, 83, 83>>    \* "_PASS"
DoubleUnderscore == <<95, 95>>    \* "__"
IfZeroText == <<35, 105, 102, 32, 48>>    \* "#if 0"
IfndefText == <<35, 105, 102, 110, 100, 101, 102, 32>>    \* "#ifndef "
IfdefText == <<35, 105, 102, 100, 101, 102, 32>>    \* "#ifdef "
IfText == <<35, 105, 102, 32>>    \* "#if "
EndifText == <<35, 101, 110, 100, 105, 102>>    \* "#endif"
DefinedText == <<100, 101, 102, 105, 110, 101, 100, 40>>    \* "defined("
ApproximationText == <<47, 47, 32, 65, 112, 112, 114, 111, 120, 105, 109, 97, 116, 105, 111, 110, 44, 32, 109, 97, 116, 99, 104, 101, 115, 32>>    \* "// Approximation, matches "
CasesOutOfText == <<32, 99, 97, 115, 101, 115, 32, 111, 117, 116, 32, 111, 102, 32>>    \* " cases out of "

\* code.replace(/\/\/.*\n/g, ""), from the position i on
RECURSIVE LineCommentsRemoved(_, _)
LineCommentsRemoved(code, i) ==
  IF i > Len(code) THEN <<>>
  ELSE IF /\ SepAt(code, <<SLASH, SLASH>>, i)
          /\ \E j \in (i + 2)..Len(code) :
               /\ code[j] = NEWLINE
               /\ \A h \in (i + 2)..(j - 1) : code[h] \notin LineTerminators
  THEN LineCommentsRemoved(code,
         1 + CHOOSE j \in (i + 2)..Len(code) :
               /\ code[j] = NEWLINE
               /\ \A h \in (i + 2)..(j - 1) : code[h] \notin LineTerminators)
  ELSE <<code[i]>> \o LineCommentsRemoved(code, i + 1)

\* code.replace(/\/\*.*?\*\//gs, ""), from the position i on
RECURSIVE BlockCommentsRemoved(_, _)
BlockCommentsRemoved(code, i) ==
  IF i > Len(code) THEN <<>>
  ELSE IF /\ SepAt(code, <<SLASH, STAR>>, i)
          /\ \E j \in (i + 2)..Len(code) : SepAt(code, <<STAR, SLASH>>, j)
  THEN BlockCommentsRemoved(code,
         2 + CHOOSE j \in (i + 2)..Len(code) :
               /\ SepAt(code, <<STAR, SLASH>>, j)
               /\ \A h \in (i + 2)..(j - 1) : ~SepAt(code, <<STAR, SLASH>>, h))
  ELSE <<code[i]>> \o BlockCommentsRemoved(code, i + 1)

\* code.replace(/\n\n+/g, "\n")
BlankLinesCollapsed(code) ==
  Concat([i \in 1..Len(code) |->
    IF i > 1 /\ code[i] = NEWLINE /\ code[i - 1] = NEWLINE THEN <<>>
    ELSE <<code[i]>>])

stripComments(code) ==
  BlankLinesCollapsed(BlockCommentsRemoved(LineCommentsRemoved(code, 1), 1))

\* the permutation of a variant; processShaders is off
ShaderPermutation(variant, removeComments) ==
  [code |-> IF removeComments THEN stripComments(variant.code) ELSE variant.code,
   flags |-> variant.flags]

\* the first lines of the groups: a line whose condition is not that of the
\* line before it
GroupStarts(diffed) ==
  {i \in 1..Len(diffed.lines) :
     i = 1 \/ diffed.lineConditions[i] # diffed.lineConditions[i - 1]}

GroupEnd(diffed, start) ==
  IF \E i \in GroupStarts(diffed) : i > start
  THEN (CHOOSE i \in GroupStarts(diffed) :
          i > start /\ \A h \in GroupStarts(diffed) : h > start => i <= h) - 1
  ELSE Len(diffed.lines)

\* the n-th element of a set of numbers
NthOf(S, n) == CHOOSE x \in S : Cardinality({y \in S : y <= x}) = n

createCodeLineGroup(lines, condition, expressionSearchIndex) ==
  [lines |-> lines, condition |-> condition,
   expressionSearchIndex |-> expressionSearchIndex]

groupLines(diffed) ==
  Concat([g \in 1..Cardinality(GroupStarts(diffed)) |->
    <<createCodeLineGroup(
        Concat([i \in 1..(GroupEnd(diffed, NthOf(GroupStarts(diffed), g))
                            - NthOf(GroupStarts(diffed), g) + 1) |->
                  <<diffed.lines[NthOf(GroupStarts(diffed), g) + i - 1]>>]),
        Concat([c \in 1..Len(diffed.lineConditions[NthOf(GroupStarts(diffed), g)]) |->
                  <<diffed.lineConditions[NthOf(GroupStarts(diffed), g)][c]>>]),
        <<>>)>>])

\* the conditions of the groups, one after the other
ConditionsOf(lineList) ==
  Concat([g \in 1..Len(lineList) |-> lineList[g].condition])

\* the loop of flagDefFromLineGroupList over the entries of the conditions
RECURSIVE FlagDefOf(_, _, _)
FlagDefOf(flagDef, entries, e) ==
  IF e > Len(entries) THEN flagDef
  ELSE IF IndexOf(ObjKeys(flagDef), entries[e][1]) = 0
  THEN FlagDefOf(ObjSet(flagDef, entries[e][1], <<entries[e][2]>>), entries, e + 1)
  ELSE IF JsIndexOf(ValuesOf(flagDef, entries[e][1]), entries[e][2]) # -1
  THEN FlagDefOf(flagDef, entries, e + 1)
  ELSE FlagDefOf(ObjSet(flagDef, entries[e][1],
                        Append(ValuesOf(flagDef, entries[e][1]), entries[e][2])),
                 entries, e + 1)

flagDefFromLineGroupList(lineList) ==
  FlagDefOf(<<>>, Concat(ConditionsOf(lineList)), 1)

Without(values, x) ==
  SubSeq(values, 1, IndexOf(values, x) - 1)
    \o SubSeq(values, IndexOf(values, x) + 1, Len(values))

MovedToEnd(values, x) ==
  IF IndexOf(values, x) # 0 THEN Append(Without(values, x), x) ELSE values

MovedToFront(values, x) ==
  IF IndexOf(values, x) # 0 THEN <<x>> \o Without(values, x) ELSE values

Biased(flagValues) ==
  MovedToFront(MovedToFront(MovedToEnd(MovedToEnd(flagValues, OffText), DisabledText),
                            OnText), EnabledText)

\* the main shader of filterAndBiasFlags
filterAndBiasFlags(flagDef) ==
  Concat([d \in 1..Len(flagDef) |->
    IF Len(flagDef[d][2]) <= 1 THEN <<>>
    ELSE << <<flagDef[d][1], Biased(flagDef[d][2])>> >>])

RECURSIVE FlagListOf(_, _, _)
FlagListOf(flagList, conditions, c) ==
  IF c > Len(conditions) THEN flagList
  ELSE IF \E i \in 1..Len(flagList) : flagList[i] = conditions[c]
  THEN FlagListOf(flagList, conditions, c + 1)
  ELSE FlagListOf(Append(flagList, conditions[c]), conditions, c + 1)

genFlagListFromLineGroups(codeLineGroups) ==
  FlagListOf(<<>>, ConditionsOf(codeLineGroups), 1)

shaderFlagsEqual(a, b) ==
  /\ Len(a) = Len(b)
  /\ \A i \in 1..Len(a) : FlagIs(b, a[i][1], a[i][2])

searchInputsEqual(a, b) ==
  /\ Len(a.flags) = Len(b.flags)
  /\ \A i \in 1..Len(a.flags) :
       /\ a.flags[i][1] = b.flags[i][1]
       /\ shaderFlagsEqual(a.flags[i][2], b.flags[i][2])
  /\ a.flagDefinition = b.flagDefinition

SearchInput(lineGroup, allFlags, flagDef) ==
  [flags |->
     Concat([f \in 1..Len(allFlags) |->
       << <<\E c \in 1..Len(lineGroup.condition) :
              shaderFlagsEqual(lineGroup.condition[c], allFlags[f]),
            allFlags[f]>> >>]),
   flagDefinition |-> flagDef]

\* searchInputList.findIndex(...), counted from 0, or -1
FindInput(searchInputList, searchInput) ==
  IF \E i \in 1..Len(searchInputList) :
       searchInputsEqual(searchInputList[i], searchInput)
  THEN (CHOOSE i \in 1..Len(searchInputList) :
          /\ searchInputsEqual(searchInputList[i], searchInput)
          /\ \A j \in 1..(i - 1) : ~searchInputsEqual(searchInputList[j], searchInput)) - 1
  ELSE -1

\* the map of extractFromLineGroups from the g-th group on:
\* [groups, searchInputList]
RECURSIVE Extracted(_, _, _, _, _)
ExtractedGroup(s, codeLineGroups, allFlags, flagDef, g, searchInput) ==
  IF FindInput(s.searchInputList, searchInput) = -1
  THEN Extracted(
         [groups |-> Append(s.groups,
                       createCodeLineGroup(codeLineGroups[g].lines,
                                           codeLineGroups[g].condition,
                                           <<Len(s.searchInputList)>>)),
          searchInputList |-> Append(s.searchInputList, searchInput)],
         codeLineGroups, allFlags, flagDef, g + 1)
  ELSE Extracted(
         [s EXCEPT !.groups =
            Append(@, createCodeLineGroup(codeLineGroups[g].lines,
                                          codeLineGroups[g].condition,
                                          <<FindInput(s.searchInputList, searchInput)>>))],
         codeLineGroups, allFlags, flagDef, g + 1)

Extracted(s, codeLineGroups, allFlags, flagDef, g) ==
  IF g > Len(codeLineGroups) THEN s
  ELSE IF Len(codeLineGroups[g].condition) = Len(allFlags)
  THEN Extracted([s EXCEPT !.groups = Append(@, codeLineGroups[g])],
                 codeLineGroups, allFlags, flagDef, g + 1)
  ELSE ExtractedGroup(s, codeLineGroups, allFlags, flagDef, g,
                      SearchInput(codeLineGroups[g], allFlags, flagDef))

SearchInputsOf(extracted) ==
  [searchInputs |-> extracted.searchInputList, updatedShader |-> extracted.groups]

\* the main code of extractSearchInputs: [searchInputs, updatedShader]
extractSearchInputs(mainCode, flagDef, allFlags) ==
  SearchInputsOf(Extracted([groups |-> <<>>, searchInputList |-> <<>>],
                           mainCode, allFlags, flagDef, 1))

IsLower(c) == c >= 97 /\ c <= 122
IsUpper(c) == c >= 65 /\ c <= 90
IsDigit(c) == c >= 48 /\ c <= 57
IsWord(c) == IsLower(c) \/ IsUpper(c) \/ IsDigit(c) \/ c = UNDERSCORE

\* name.replace(/([a-z]+)([A-Z])/g, "$1_$2")
LowerUpperSplit(name) ==
  Concat([i \in 1..Len(name) |->
    IF i > 1 /\ IsUpper(name[i]) /\ IsLower(name[i - 1])
    THEN <<UNDERSCORE, name[i]>> ELSE <<name[i]>>])

\* result.replace(/([A-Z]+)([A-Z][a-z])/g, "$1_$2")
UpperRunSplit(name) ==
  Concat([i \in 1..Len(name) |->
    IF /\ i > 1 /\ i < Len(name)
       /\ IsUpper(name[i - 1]) /\ IsUpper(name[i]) /\ IsLower(name[i + 1])
    THEN <<UNDERSCORE, name[i]>> ELSE <<name[i]>>])

\* result.replace(/(\d+)([a-zA-Z])/g, "$1_$2")
DigitLetterSplit(name) ==
  Concat([i \in 1..Len(name) |->
    IF i > 1 /\ (IsLower(name[i]) \/ IsUpper(name[i])) /\ IsDigit(name[i - 1])
    THEN <<UNDERSCORE, name[i]>> ELSE <<name[i]>>])

\* toUpperCase of a string of ASCII
ToUpperCase(name) ==
  Concat([i \in 1..Len(name) |->
    <<IF IsLower(name[i]) THEN name[i] - 32 ELSE name[i]>>])

formatDefinitionName(name) ==
  ToUpperCase(DigitLetterSplit(UpperRunSplit(LowerUpperSplit(name))))

generateFlagNameMacro(key, value) ==
  formatDefinitionName(key \o DoubleUnderscore \o value)

EndsWith(str, suffix) ==
  Len(str) >= Len(suffix) /\ SubSeq(str, Len(str) - Len(suffix) + 1, Len(str)) = suffix

StartsWith(str, prefix) ==
  Len(str) >= Len(prefix) /\ SubSeq(str, 1, Len(prefix)) = prefix

generatePassNameMacro(name) ==
  IF EndsWith(formatDefinitionName(name), PassSuffix) THEN formatDefinitionName(name)
  ELSE formatDefinitionName(name) \o PassSuffix

tokenToMacro(token) ==
  IF token.flagName = PassText THEN generatePassNameMacro(token.flagValue)
  ELSE IF StartsWith(token.flagName, FlagPrefix)
  THEN generateFlagNameMacro(SubSeq(token.flagName, 3, Len(token.flagName)),
                             token.flagValue)
  ELSE formatDefinitionName(token.flagName \o token.flagValue)

\* macroAssignment is a function of the macro names
RECURSIVE MacrosFrom(_, _, _)
MacrosFrom(tokens, macroAssignment, i) ==
  IF i < 1 THEN FALSE
  ELSE IF tokens[i].joinType = JoinAnd
  THEN IF macroAssignment[tokenToMacro(tokens[i])] = tokens[i].isNegative THEN FALSE
       ELSE MacrosFrom(tokens, macroAssignment, i - 1)
  ELSE IF tokens[i].joinType = JoinOr
  THEN IF macroAssignment[tokenToMacro(tokens[i])] # tokens[i].isNegative THEN TRUE
       ELSE MacrosFrom(tokens, macroAssignment, i - 1)
  ELSE macroAssignment[tokenToMacro(tokens[i])] # tokens[i].isNegative

evaluateTokensWithMacros(tokens, macroAssignment) ==
  MacrosFrom(tokens, macroAssignment, Len(tokens))

\* the order of Array.prototype.sort on strings
RECURSIVE StrLess(_, _)
StrLess(a, b) ==
  IF b = <<>> THEN FALSE
  ELSE IF a = <<>> THEN TRUE
  ELSE IF a[1] # b[1] THEN a[1] < b[1]
  ELSE StrLess(Tail(a), Tail(b))

SortedStrings(S) ==
  Concat([n \in 1..Cardinality(S) |->
    <<CHOOSE x \in S : Cardinality({y \in S : StrLess(y, x)}) = n - 1>>])

TruthTable(tokens, variables) ==
  [variables |-> variables,
   minterms |->
     IF Len(variables) = 0 THEN <<>>
     ELSE Concat([k \in 1..Shl1(Len(variables)) |->
            IF evaluateTokensWithMacros(tokens, Assignment(variables, k - 1))
            THEN <<k - 1>> ELSE <<>>])]

buildTruthTable(tokens) ==
  TruthTable(tokens,
             SortedStrings({tokenToMacro(tokens[i]) : i \in 1..Len(tokens)}))

WordStart(expr, i) == IsWord(expr[i]) /\ (i = 1 \/ ~IsWord(expr[i - 1]))
WordEnd(expr, i) == IsWord(expr[i]) /\ (i = Len(expr) \/ ~IsWord(expr[i + 1]))

\* result.replace(/(\w+)/g, "defined($1)")
WordsDefined(expr) ==
  Concat([i \in 1..Len(expr) |->
    (IF WordStart(expr, i) THEN DefinedText ELSE <<>>)
      \o <<expr[i]>>
      \o (IF WordEnd(expr, i) THEN <<RPAREN>> ELSE <<>>)])

formatExpression(expr) ==
  WordsDefined(
    Concat([i \in 1..Len(expr) |->
      IF expr[i] = TILDE THEN <<BANG>>
      ELSE IF expr[i] = BAR THEN <<BAR, BAR>>
      ELSE IF expr[i] = AMPERSAND THEN <<AMPERSAND, AMPERSAND>>
      ELSE <<expr[i]>>]))

MacroConditional(simplified) ==
  IF Cardinality(simplified.atoms) = 1
  THEN IF StartsWith(simplified.expression, <<TILDE>>)
       THEN IfndefText \o Tail(simplified.expression)
       ELSE IfdefText \o simplified.expression
  ELSE IfText \o formatExpression(simplified.expression)

\* the conditional and the atoms of one search output
Conditional(simplified) ==
  [macroConditional |-> MacroConditional(simplified), atoms |-> simplified.atoms]

Processed(tokenList) ==
  IF Len(tokenList) = 0 THEN [macroConditional |-> IfZeroText, atoms |-> {}]
  ELSE Conditional(simplifyLogic(buildTruthTable(tokenList).variables,
                                 buildTruthTable(tokenList).minterms, "scalar"))

ProcessedAll(processed) ==
  [macroConditionals |->
     Concat([i \in 1..Len(processed) |-> <<processed[i].macroConditional>>]),
   macros |-> UNION {processed[i].atoms : i \in 1..Len(processed)}]

\* the set of the macros is a set: the order of its insertions is not kept
processExpressions(searchOutputs) ==
  ProcessedAll(Concat([i \in 1..Len(searchOutputs) |->
                 <<Processed(searchOutputs[i].tokenList)>>]))

\* the decimal digits of a natural number
RECURSIVE Decimal(_)
Decimal(n) ==
  IF n < 10 THEN <<48 + n>> ELSE Decimal(n \div 10) \o <<48 + (n % 10)>>

\* a marker that carries the total in the place of the score
markedWithTotal(macro, result, input) ==
  IF result.score # Len(input.flags)
  THEN ApproximationText \o Decimal(Len(input.flags)) \o CasesOutOfText
         \o Decimal(Len(input.flags)) \o <<NEWLINE>> \o macro
  ELSE macro

\* one element of the map of markApproximatedResults
marked(macro, result, input) ==
  IF result.score # Len(input.flags)
  THEN ApproximationText \o Decimal(result.score) \o CasesOutOfText
         \o Decimal(Len(input.flags)) \o <<NEWLINE>> \o macro
  ELSE macro

markApproximatedResults(macroConditionals, searchResults, searchInputs) ==
  Concat([i \in 1..Len(macroConditionals) |->
    <<marked(macroConditionals[i], searchResults[i], searchInputs[i])>>])

assembleLineGroup(group, lineDecodeTable, macroExpressions) ==
  IF group.expressionSearchIndex # <<>>
  THEN macroExpressions[group.expressionSearchIndex[1] + 1] \o <<NEWLINE>>
         \o Join([i \in 1..Len(group.lines) |-> lineDecodeTable[group.lines[i] + 1]],
                 <<NEWLINE>>)
         \o <<NEWLINE>> \o EndifText
  ELSE Join([i \in 1..Len(group.lines) |-> lineDecodeTable[group.lines[i] + 1]],
            <<NEWLINE>>)

assembleLineGroups(code, lineDecodeTable, macroExpressions) ==
  Join([g \in 1..Len(code) |->
          assembleLineGroup(code[g], lineDecodeTable, macroExpressions)],
       <<NEWLINE>>)

\* the shader has no functions
assembleCode(shader, macroExpressions, lineDecodeTable) ==
  assembleLineGroups(shader, lineDecodeTable, macroExpressions)

\* restoreCode up to the search inputs
PreparedGroups(lineDecodeTable, groupedShader) ==
  [lineDecodeTable |-> lineDecodeTable,
   extracted |->
     extractSearchInputs(groupedShader,
                         filterAndBiasFlags(flagDefFromLineGroupList(groupedShader)),
                         genFlagListFromLineGroups(groupedShader))]

PreparedShader(encodedShader) ==
  PreparedGroups(encodedShader.lineDecodeTable,
                 groupLines(diffPermutations(encodedShader.mainShader)))

Prepared(inputVariants, removeComments) ==
  PreparedShader(encodeShader(
    Concat([p \in 1..Len(inputVariants) |->
      <<ShaderPermutation(inputVariants[p], removeComments)>>])))

\* restoreCode from the search results on
AssembledWith(prepared, usedMacros, finalMacros) ==
  [usedMacros |-> usedMacros,
   finalMacros |-> finalMacros,
   code |-> assembleCode(prepared.extracted.updatedShader, finalMacros,
                         prepared.lineDecodeTable)]

AssembledFrom(prepared, searchResults, processed) ==
  AssembledWith(prepared, processed.macros,
                markApproximatedResults(processed.macroConditionals, searchResults,
                                        prepared.extracted.searchInputs))

Assembled(prepared, searchResults) ==
  AssembledFrom(prepared, searchResults, processExpressions(searchResults))

Restored(prepared, timedOutAt) ==
  Assembled(prepared, expressionSearch(prepared.extracted.searchInputs, timedOutAt))

RestoreCodeResult(restored) == [usedMacros |-> restored.usedMacros, code |-> restored.code]

restoreCode(inputVariants, removeComments, timedOutAt) ==
  RestoreCodeResult(Restored(Prepared(inputVariants, removeComments), timedOutAt))

(***************************************************************************)
(* Restoring sessions: a list of variants is prepared, searched and        *)
(* assembled, and then restored once more from the same inputs.  The       *)
(* variants have the lines "a" and "b", and between them the line "x" in   *)
(* the variants of one set and the line "y" in the variants of another.    *)
(* A search with a positive timeout is stopped by the clock at its first   *)
(* pass, at a middle pass or at the pass MaxPasses.                        *)
(***************************************************************************)
MaxPasses == 45

FlagA == <<102, 95, 65>>     \* "f_A"
FlagB == <<102, 95, 66>>     \* "f_B"
FlagC == <<102, 95, 67>>     \* "f_C"

ShaderFlags3(a, b, c) == <<Entry(FlagA, a), Entry(FlagB, b), Entry(FlagC, c)>>
ShaderFlags2(a, b) == <<Entry(FlagA, a), Entry(FlagB, b)>>

FlagLists ==
  { <<ShaderFlags2(OnText, OnText), ShaderFlags2(OnText, OffText),
      ShaderFlags2(OffText, OnText), ShaderFlags2(OffText, OffText)>>,
    <<ShaderFlags3(OnText, OnText, OffText), ShaderFlags3(OnText, OffText, OnText),
      ShaderFlags3(OnText, OffText, OffText), ShaderFlags3(OffText, OffText, OffText)>>,
    <<ShaderFlags2(OffText, OnText), ShaderFlags2(OnText, OnText),
      ShaderFlags2(EnabledText, OnText)>>,
    <<ShaderFlags2(OnText, OffText), ShaderFlags2(OffText, OffText)>> }

LineA == <<97>>                          \* "a"
LineB == <<98>>                          \* "b"
LineX == <<120>>                         \* "x"
LineY == <<121>>                         \* "y"
CommentLine == <<47, 47, 99>>            \* "//c"
BlockComment == <<47, 42, 99, 42, 47>>   \* "/*c*/"

VariantCode(p, withX, withY, commented) ==
  Join((IF commented /\ p = 1 THEN <<CommentLine>> ELSE <<>>)
         \o <<LineA>>
         \o (IF p \in withX THEN <<LineX>> ELSE <<>>)
         \o (IF p \in withY THEN <<LineY>> ELSE <<>>)
         \o (IF commented /\ p = 2 THEN <<LineB \o BlockComment>> ELSE <<LineB>>),
       <<NEWLINE>>)

InputVariants(flagList, withX, withY, commented) ==
  Concat([p \in 1..Len(flagList) |->
    <<[code |-> VariantCode(p, withX, withY, commented), flags |-> flagList[p]]>>])

SearchTimeouts == {0, 10000}

\* the passes at which the clock can have run out
Passes(searchTimeout) ==
  IF searchTimeout <= 0 THEN {1} ELSE {1, MaxPasses \div 2, MaxPasses}

\* the variants of a session: a commented code with the comments kept or
\* removed, a code without comments with the option at its default
Configurations ==
  {[flagList |-> f, withX |-> x, withY |-> y, commented |-> c, removeComments |-> r] :
     f \in FlagLists, x \in SUBSET (1..4), y \in {{}, {1}}, c \in BOOLEAN, r \in BOOLEAN}

IsConfiguration(c) ==
  /\ c.withX \subseteq 1..Len(c.flagList)
  /\ c.commented => c.withY = {}
  /\ ~c.commented => c.removeComments

Extract(inputVariants, removeComments, searchTimeout) ==
  /\ data' = [inputVariants |-> inputVariants, removeComments |-> removeComments,
              searchTimeout |-> searchTimeout]
  /\ ctx' = [origin |-> "memory", prepared |-> Prepared(inputVariants, removeComments)]

ExtractSearchInputs ==
  /\ pc = "idle"
  /\ \E c \in Configurations, searchTimeout \in SearchTimeouts :
       /\ IsConfiguration(c)
       /\ Extract(InputVariants(c.flagList, c.withX, c.withY, c.commented),
                  c.removeComments, searchTimeout)
  /\ pc' = "extracted" /\ level' = "variants"
  /\ UNCHANGED <<decoded, written, reread>>

ExpressionSearch ==
  /\ pc = "extracted" /\ level = "variants"
  /\ \E timedOutAt \in [1..Len(ctx.prepared.extracted.searchInputs)
                          -> Passes(data.searchTimeout)] :
       decoded' = Ok(expressionSearch(ctx.prepared.extracted.searchInputs, timedOutAt))
  /\ pc' = "searched"
  /\ UNCHANGED <<level, ctx, data, written, reread>>

AssembleCode ==
  /\ pc = "searched" /\ level = "variants"
  /\ written' = Assembled(ctx.prepared, decoded.val)
  /\ pc' = "restored"
  /\ UNCHANGED <<level, ctx, data, decoded, reread>>

RestoredAgain(prepared) ==
  \E timedOutAt \in [1..Len(prepared.extracted.searchInputs)
                       -> Passes(data.searchTimeout)] :
    reread' = RestoreCodeResult(Restored(prepared, timedOutAt))

\* a second call of restoreCode with the inputs of the first
RestoreCodeAgain ==
  /\ pc = "restored" /\ level = "variants"
  /\ RestoredAgain(Prepared(data.inputVariants, data.removeComments))
  /\ pc' = "restoredAgain"
  /\ UNCHANGED <<level, ctx, data, decoded, written>>

InitRestore == Idle

NextRestore == ExtractSearchInputs \/ ExpressionSearch \/ AssembleCode \/ RestoreCodeAgain

SpecRestore == InitRestore /\ [][NextRestore]_vars

(***************************************************************************)
(* Compiling a manifest with the shared DXC compiler.                      *)
(* JavaScript runs one task at a time: an invocation keeps the thread from *)
(* the point it is resumed up to its next await, its return or its throw.  *)
(* ctx holds the module state of dxc/mod.ts (the singleton, every compiler *)
(* created so far), the invocation that has the thread and the number of   *)
(* release calls made; decoded holds the compileMaterial invocations;      *)
(* written is the log of release calls.                                    *)
(***************************************************************************)
MaxShaders == 2

MaxReleases == 2

Invocations == {1, 2}

FileNames == {"a.hlsl", "b.hlsl"}

\* manifest.shaders, each entry by its fileName
Manifests == UNION {[1..n -> FileNames] : n \in 1..MaxShaders}

\* the shader files the source provider can load
Availabilities == {FileNames, {"a.hlsl"}}

\* new DxcCompiler(dllPath): released counts the executions of
\* comReleaseAll([...]) and _lib.close(), active the compile calls in progress
DxcCompiler == [disposed |-> FALSE, released |-> 0, active |-> 0]

disposeUnguarded(c) == [c EXCEPT !.disposed = TRUE, !.released = @ + 1]

\* DxcCompiler.dispose()
dispose(c) ==
  IF c.disposed THEN c
  ELSE [c EXCEPT !.disposed = TRUE, !.released = @ + 1]

\* let _instance = null, and no compiler created yet
DxcModule == [instance |-> <<>>, compilers |-> <<>>, running |-> {}, releases |-> 0]

\* getDxcCompiler(dllPath); the constructor throws DxcLoadError when the
\* library cannot be loaded
getDxcCompiler(m, dllFound) ==
  IF m.instance # <<>> THEN [state |-> m, dxc |-> m.instance, err |-> NoError]
  ELSE IF ~dllFound THEN [state |-> m, dxc |-> <<>>, err |-> "DxcLoadError"]
  ELSE [state |-> [m EXCEPT !.compilers = Append(@, DxcCompiler),
                            !.instance = <<Len(m.compilers) + 1>>],
        dxc |-> <<Len(m.compilers) + 1>>, err |-> NoError]

\* disposeDxcCompiler(): _instance?.dispose(); _instance = null
disposeDxcCompiler(m) ==
  [m EXCEPT !.compilers = IF m.instance = <<>> THEN @
                          ELSE [@ EXCEPT ![m.instance[1]] = dispose(@)],
            !.instance = <<>>]

\* the result of IDxcCompiler3::Compile as _extractResult reads it
compileResult(fileName, fails) == [success |-> fileName \notin fails]

NoFailure == [kind |-> NoError, fileName |-> ""]

Failure(kind, fileName) == [kind |-> kind, fileName |-> fileName]

\* a compileMaterial invocation before its call: compiled lists the files
\* handed to dxc.compile, results what the calls returned
NotCalled ==
  [at |-> "notCalled", dxc |-> <<>>, i |-> 0, compiled |-> <<>>, results |-> <<>>,
   compiledShaders |-> <<>>, error |-> NoFailure, returned |-> <<>>]

Thrown(task, kind, fileName) ==
  [task EXCEPT !.at = "thrown", !.error = Failure(kind, fileName)]

shaderCompiledUnchecked(task, fileName, result) ==
  [task EXCEPT !.at = "loop", !.i = @ + 1,
               !.results = Append(@, result.success),
               !.compiledShaders = Append(@, fileName)]

\* the loop body of compileMaterial after dxc.compile has returned
shaderCompiled(task, fileName, result) ==
  IF ~result.success
  THEN [Thrown(task, "CompilationFailed", fileName)
          EXCEPT !.results = Append(@, result.success)]
  ELSE [task EXCEPT !.at = "loop", !.i = @ + 1,
                    !.results = Append(@, result.success),
                    !.compiledShaders = Append(@, fileName)]

SuspendedInCompile(at) == at \in {"loadManifestSources", "writeMaterial", "compile"}

\* the awaits of compileMaterial; DxcCompiler.compile has none
Suspended(at) == at \in {"loadManifestSources", "writeMaterial"}

Settled(at) == at \in {"returned", "thrown"}

\* the invocation that has the thread once invocation t stands at position at
Thread(t, at) == IF Suspended(at) \/ Settled(at) THEN {} ELSE {t}

Runnable(t) ==
  \/ ctx.running = {t}
  \/ ctx.running = {} /\ Suspended(decoded[t].at)

Move(t, task, m) ==
  /\ decoded' = [decoded EXCEPT ![t] = task]
  /\ ctx' = [m EXCEPT !.running = Thread(t, task.at)]

StartCompiling ==
  /\ pc = "idle"
  /\ \E manifests \in [Invocations -> Manifests], fails \in SUBSET FileNames,
        available \in Availabilities, dllFound \in BOOLEAN :
       data' = [manifests |-> manifests, fails |-> fails,
                available |-> available, dllFound |-> dllFound]
  /\ ctx' = DxcModule
  /\ decoded' = [t \in Invocations |-> NotCalled]
  /\ written' = <<>>
  /\ pc' = "compiling" /\ level' = "manifest"
  /\ UNCHANGED reread

\* compileMaterial up to its first await
CompileMaterial(t) ==
  /\ pc = "compiling" /\ decoded[t].at = "notCalled" /\ ctx.running = {}
  /\ LET got == getDxcCompiler(ctx, data.dllFound)
     IN IF got.err # NoError
        THEN Move(t, Thrown(decoded[t], got.err, ""), got.state)
        ELSE Move(t, [decoded[t] EXCEPT !.at = "loadManifestSources", !.dxc = got.dxc],
                  got.state)
  /\ UNCHANGED <<pc, level, data, written, reread>>

FirstMissing(manifest, available) ==
  LET missing == {i \in 1..Len(manifest) : manifest[i] \notin available}
  IN CHOOSE i \in missing : \A j \in missing : i <= j

\* await loadManifestSources(manifest) settles
LoadManifestSources(t) ==
  /\ pc = "compiling" /\ decoded[t].at = "loadManifestSources" /\ Runnable(t)
  /\ LET manifest == data.manifests[t]
     IN IF \E i \in 1..Len(manifest) : manifest[i] \notin data.available
        THEN Move(t, Thrown(decoded[t], "Error",
                            manifest[FirstMissing(manifest, data.available)]), ctx)
        ELSE Move(t, [decoded[t] EXCEPT !.at = "loop", !.i = 1], ctx)
  /\ UNCHANGED <<pc, level, data, written, reread>>

\* one shader entry of the loop up to the call into the compiler:
\* sources.get(fileName), then DxcCompiler.compile up to IDxcCompiler3::Compile
NextShader(t) ==
  /\ pc = "compiling" /\ decoded[t].at = "loop" /\ Runnable(t)
  /\ decoded[t].i <= Len(data.manifests[t])
  /\ LET fileName == data.manifests[t][decoded[t].i]
         k == decoded[t].dxc[1]
     IN IF fileName \notin data.available
        THEN Move(t, Thrown(decoded[t], "Error", fileName), ctx)
        ELSE IF ctx.compilers[k].disposed
        THEN Move(t, Thrown(decoded[t], "DxcCompilationError", ""), ctx)
        ELSE Move(t, [decoded[t] EXCEPT !.at = "compile",
                                        !.compiled = Append(@, fileName)],
                  [ctx EXCEPT !.compilers[k].active = @ + 1])
  /\ UNCHANGED <<pc, level, data, written, reread>>

\* the compiler call returns, then the rest of the loop body
CompileReturns(t) ==
  /\ pc = "compiling" /\ decoded[t].at = "compile" /\ Runnable(t)
  /\ LET fileName == data.manifests[t][decoded[t].i]
         k == decoded[t].dxc[1]
     IN Move(t, shaderCompiled(decoded[t], fileName, compileResult(fileName, data.fails)),
             [ctx EXCEPT !.compilers[k].active = @ - 1])
  /\ UNCHANGED <<pc, level, data, written, reread>>

\* the loop is over: buildMaterial(materialDef), then the call of writeMaterial
BuildCompiledMaterial(t) ==
  /\ pc = "compiling" /\ decoded[t].at = "loop" /\ Runnable(t)
  /\ decoded[t].i > Len(data.manifests[t])
  /\ Move(t, [decoded[t] EXCEPT !.at = "writeMaterial"], ctx)
  /\ UNCHANGED <<pc, level, data, written, reread>>

\* await writeMaterial(material) settles: return { material, binary }
ReturnMaterial(t) ==
  /\ pc = "compiling" /\ decoded[t].at = "writeMaterial" /\ Runnable(t)
  /\ Move(t, [decoded[t] EXCEPT !.at = "returned",
                                !.returned = <<[material |-> decoded[t].compiledShaders,
                                                binary |-> Len(decoded[t].compiledShaders)]>>],
          ctx)
  /\ UNCHANGED <<pc, level, data, written, reread>>

Released(call, on, before, after) ==
  [call |-> call, on |-> on, before |-> before, after |-> after]

\* a caller releases the singleton
DisposeDxcCompiler ==
  /\ pc = "compiling" /\ ctx.running = {} /\ ctx.releases < MaxReleases
  /\ LET m == disposeDxcCompiler(ctx)
     IN /\ ctx' = [m EXCEPT !.releases = @ + 1]
        /\ written' = Append(written,
             IF ctx.instance = <<>>
             THEN Released("disposeDxcCompiler", <<>>, DxcCompiler, DxcCompiler)
             ELSE Released("disposeDxcCompiler", ctx.instance,
                           ctx.compilers[ctx.instance[1]], m.compilers[ctx.instance[1]]))
  /\ UNCHANGED <<pc, level, data, decoded, reread>>

\* a holder of compiler k calls its dispose()
Dispose(k) ==
  /\ pc = "compiling" /\ ctx.running = {} /\ ctx.releases < MaxReleases
  /\ k \in 1..Len(ctx.compilers)
  /\ ctx' = [ctx EXCEPT !.compilers[k] = dispose(@), !.releases = @ + 1]
  /\ written' = Append(written, Released("dispose", <<k>>, ctx.compilers[k],
                                         dispose(ctx.compilers[k])))
  /\ UNCHANGED <<pc, level, data, decoded, reread>>

InitCompile == Idle

NextCompile ==
  \/ StartCompiling
  \/ \E t \in Invocations : CompileMaterial(t)
  \/ \E t \in Invocations : LoadManifestSources(t)
  \/ \E t \in Invocations : NextShader(t)
  \/ \E t \in Invocations : CompileReturns(t)
  \/ \E t \in Invocations : BuildCompiledMaterial(t)
  \/ \E t \in Invocations : ReturnMaterial(t)
  \/ DisposeDxcCompiler
  \/ \E k \in Invocations : Dispose(k)

SpecCompile == InitCompile /\ [][NextCompile]_vars

(***************************************************************************)
(* filterAndBiasFlags on the heap.  A FlagDefinition is an object whose    *)
(* values are arrays; an object holds references, here indices into the    *)
(* heap of arrays.  { ...d } copies the keys and the references of d, and  *)
(* splice, push and unshift change the array a reference points to.        *)
(***************************************************************************)
MaxValues == 3

BooleanValues == {OnText, OffText, EnabledText, DisabledText}

\* the value lists flagDefFromLineGroupList can build: no value twice
ValueLists ==
  {values \in UNION {[1..n -> BooleanValues] : n \in 1..MaxValues} :
     \A i, j \in 1..Len(values) : i # j => values[i] # values[j]}

FunctionName == <<118, 111, 105, 100, 32, 102, 40, 41>>    \* "void f()"

\* the object with its arrays read through the heap
Dereferenced(flagDef, heap) ==
  Concat([d \in 1..Len(flagDef) |-> << <<flagDef[d][1], heap[flagDef[d][2]]>> >>])

DereferencedAll(definition, heap) ==
  [mainShader |-> Dereferenced(definition.mainShader, heap),
   functions |-> Concat([f \in 1..Len(definition.functions) |->
     << <<definition.functions[f][1],
          Dereferenced(definition.functions[f][2], heap)>> >>])]

\* { ...d }: a new object with the keys and the references of d
Spread(flagDef) == Concat([d \in 1..Len(flagDef) |-> << <<flagDef[d][1], flagDef[d][2]>> >>])

\* the loop over Object.entries(flagDef): the arrays with more than one
\* value are biased where they are
RECURSIVE BiasedInPlace(_, _, _)
BiasedInPlace(heap, flagDef, d) ==
  IF d > Len(flagDef) THEN heap
  ELSE IF Len(heap[flagDef[d][2]]) <= 1 THEN BiasedInPlace(heap, flagDef, d + 1)
  ELSE BiasedInPlace([heap EXCEPT ![flagDef[d][2]] = Biased(@)], flagDef, d + 1)

\* delete flagDef[key] for the keys whose array has at most one value
KeysRemoved(flagDef, heap) ==
  Concat([d \in 1..Len(flagDef) |->
    IF Len(heap[flagDef[d][2]]) <= 1 THEN <<>> ELSE <<flagDef[d]>>])

RECURSIVE BiasedAll(_, _, _)
BiasedAll(heap, allDefs, a) ==
  IF a > Len(allDefs) THEN heap
  ELSE BiasedAll(BiasedInPlace(heap, allDefs[a], 1), allDefs, a + 1)

\* filterAndBiasFlags(definition) with the heap it runs on: the heap after
\* the call and the definition returned
filterAndBiasFlagsOnHeap(definition, heap) ==
  LET allDefs == <<Spread(definition.mainShader)>>
                   \o [f \in 1..Len(definition.functions) |->
                         Spread(definition.functions[f][2])]
      after == BiasedAll(heap, allDefs, 1)
  IN [heap |-> after,
      returned |->
        [mainShader |-> KeysRemoved(allDefs[1], after),
         functions |-> Concat([f \in 1..Len(definition.functions) |->
           << <<definition.functions[f][1], KeysRemoved(allDefs[f + 1], after)>> >>])]]

\* definitions over fresh arrays: the main shader has the flags f_A and
\* f_B, a function has the flag f_A
LocalFlagDefinitions ==
  {[mainShader |-> <<Entry(FlagA, 1), Entry(FlagB, 2)>>, functions |-> <<>>],
   [mainShader |-> <<Entry(FlagA, 1)>>,
    functions |-> <<Entry(FunctionName, <<Entry(FlagA, 2)>>)>>]}

Heaps == [{1, 2} -> ValueLists]

\* the caller builds a definition and calls filterAndBiasFlags on it
FilterAndBiasFlags ==
  /\ pc = "idle"
  /\ \E definition \in LocalFlagDefinitions, heap \in Heaps :
       /\ ctx' = [origin |-> "memory", definition |-> definition, heap |-> heap]
       /\ data' = DereferencedAll(definition, heap)
       /\ LET result == filterAndBiasFlagsOnHeap(definition, heap)
          IN /\ written' = result.heap
             /\ decoded' = Ok(DereferencedAll(result.returned, result.heap))
  /\ pc' = "filtered" /\ level' = "flagDefinition"
  /\ UNCHANGED reread

\* the caller reads the definition it passed in
ReadDefinition ==
  /\ pc = "filtered" /\ level = "flagDefinition"
  /\ reread' = DereferencedAll(ctx.definition, written)
  /\ pc' = "rereadDefinition"
  /\ UNCHANGED <<level, ctx, data, decoded, written>>

InitFlags == Idle

NextFlags == FilterAndBiasFlags \/ ReadDefinition

SpecFlags == InitFlags /\ [][NextFlags]_vars

(***************************************************************************)
(* Expression search on inputs given directly                              *)
(* (src/decompiler/expression-search.ts).                                  *)
(***************************************************************************)
\* evaluateExpression from the i-th token down to the first
RECURSIVE evaluateFrom(_, _, _)
evaluateFrom(tokenList, flags, i) ==
  IF i < 1 THEN FALSE
  ELSE IF tokenList[i].joinType = JoinAnd
          /\ ~(FlagIs(flags, tokenList[i].flagName, tokenList[i].flagValue)
                 # tokenList[i].isNegative)
  THEN FALSE
  ELSE IF tokenList[i].joinType = JoinOr
          /\ (FlagIs(flags, tokenList[i].flagName, tokenList[i].flagValue)
                # tokenList[i].isNegative)
  THEN TRUE
  ELSE IF tokenList[i].joinType = JoinInitial
  THEN FlagIs(flags, tokenList[i].flagName, tokenList[i].flagValue)
         # tokenList[i].isNegative
  ELSE evaluateFrom(tokenList, flags, i - 1)

evaluateExpression(tokenList, flags) == evaluateFrom(tokenList, flags, Len(tokenList))

OnOff == <<OnText, OffText>>

\* a flag definition after filterAndBiasFlags, with the flag assignments of
\* the variants: a definition without a flag is what is left when every flag
\* has one value
DefinitionsWithRows ==
  {[flagDefinition |-> <<>>,
    rows |-> <<<<Entry(FlagA, OnText)>>, <<>>>>],
   [flagDefinition |-> <<Entry(FlagA, OnOff)>>,
    rows |-> <<<<Entry(FlagA, OnText)>>, <<Entry(FlagA, OffText)>>>>],
   [flagDefinition |-> <<Entry(FlagA, OnOff), Entry(FlagB, OnOff)>>,
    rows |-> <<ShaderFlags2(OnText, OnText), ShaderFlags2(OnText, OffText),
               ShaderFlags2(OffText, OnText), ShaderFlags2(OffText, OffText)>>]}

\* the rows a line group is given with: each row absent, or present with the
\* expected outcome
RowChoices(rows) ==
  {choice \in [1..Len(rows) -> {"absent", "true", "false"}] :
     \E r \in 1..Len(rows) : choice[r] # "absent"}

DirectInput(d, choice) ==
  [flags |-> Concat([r \in 1..Len(d.rows) |->
     IF choice[r] = "absent" THEN <<>> ELSE << <<choice[r] = "true", d.rows[r]>> >>]),
   flagDefinition |-> d.flagDefinition]

\* expressionSearch([input], timeout): with a definition without a flag the
\* slow search is entered and, unless the time has run out at its first
\* pass, incrementExpression reads flagDef[undefined][0] and throws
searchOne(input, timedOutAt) ==
  IF input.flagDefinition = <<>> /\ timedOutAt > 1
  THEN [err |-> "TypeError", why |-> "", val |-> Null]
  ELSE Ok(expressionSearch(<<input>>, <<timedOutAt>>)[1])

SearchOne ==
  /\ pc = "idle"
  /\ \E d \in DefinitionsWithRows, searchTimeout \in SearchTimeouts :
       \E choice \in RowChoices(d.rows), timedOutAt \in Passes(searchTimeout) :
         /\ data' = DirectInput(d, choice)
         /\ ctx' = [origin |-> "memory", searchTimeout |-> searchTimeout,
                    timedOutAt |-> timedOutAt]
         /\ decoded' = searchOne(DirectInput(d, choice), timedOutAt)
  /\ pc' = "scored" /\ level' = "searchInput"
  /\ UNCHANGED <<written, reread>>

\* the returned token list evaluated on every flag assignment of the input
EvaluateExpression ==
  /\ pc = "scored" /\ level = "searchInput" /\ decoded.err = NoError
  /\ written' = Concat([n \in 1..Len(data.flags) |->
       <<evaluateExpression(decoded.val.tokenList, data.flags[n][2])>>])
  /\ pc' = "evaluated"
  /\ UNCHANGED <<level, ctx, data, decoded, reread>>

InitSearch == Idle

NextSearch == SearchOne \/ EvaluateExpression

SpecSearch == InitSearch /\ [][NextSearch]_vars

(***************************************************************************)
(* The build cache (src/server/build-cache.ts).  data is the Map of the    *)
(* cache in its insertion order, as <<id, entry>> pairs; decoded keeps,    *)
(* for the record, when each id was last set and last set or read; written *)
(* is the record of the last operation.                                    *)
(***************************************************************************)
MaxOps == 5

BuildIds == {"a", "b", "c"}

MaxEntriesChoices == {0, 1, 2}

\* cache.has(id)
cacheHas(cache, id) == \E i \in 1..Len(cache) : cache[i][1] = id

\* cache.get(id), for an id the cache has
cacheEntry(cache, id) == cache[CHOOSE i \in 1..Len(cache) : cache[i][1] = id][2]

\* cache.delete(id)
cacheDelete(cache, id) == SelectSeq(cache, LAMBDA e : e[1] # id)

\* cache.set(id, entry) of the Map: an id it has keeps its place
mapSet(cache, id, entry) ==
  IF cacheHas(cache, id)
  THEN [i \in 1..Len(cache) |-> IF cache[i][1] = id THEN <<id, entry>> ELSE cache[i]]
  ELSE Append(cache, <<id, entry>>)

getInPlace(cache, id) ==
  IF ~cacheHas(cache, id) THEN [cache |-> cache, result |-> <<>>]
  ELSE [cache |-> cache, result |-> <<cacheEntry(cache, id)>>]

\* get(id) of the build cache
get(cache, id) ==
  IF ~cacheHas(cache, id) THEN [cache |-> cache, result |-> <<>>]
  ELSE [cache |-> mapSet(cacheDelete(cache, id), id, cacheEntry(cache, id)),
        result |-> <<cacheEntry(cache, id)>>]

\* while (cache.size > maxEntries) cache.delete(cache.keys().next().value)
RECURSIVE evictOldest(_, _)
evictOldest(cache, maxEntries) ==
  IF Len(cache) > maxEntries THEN evictOldest(Tail(cache), maxEntries) ELSE cache

\* set(id, entry) of the build cache
set(cache, id, entry, maxEntries) ==
  evictOldest(mapSet(IF cacheHas(cache, id) THEN cacheDelete(cache, id) ELSE cache,
                     id, entry),
              maxEntries)

CacheIds(cache) == {cache[i][1] : i \in 1..Len(cache)}

\* the ids of before that are not in after, in the order of before
EvictedIds(before, after) ==
  SelectSeq([i \in 1..Len(before) |-> before[i][1]], LAMBDA id : id \notin CacheIds(after))

Operation(op, id, result, present, evicted) ==
  [op |-> op, id |-> id, result |-> result, present |-> present, evicted |-> evicted]

CreateBuildCache ==
  /\ pc = "idle"
  /\ \E maxEntries \in MaxEntriesChoices :
       ctx' = [origin |-> "memory", maxEntries |-> maxEntries, time |-> 0]
  /\ data' = <<>>
  /\ decoded' = [setAt |-> [id \in BuildIds |-> 0], usedAt |-> [id \in BuildIds |-> 0]]
  /\ written' = Operation("createBuildCache", "", <<>>, {}, <<>>)
  /\ pc' = "cache" /\ level' = "buildCache"
  /\ UNCHANGED reread

Get(id) ==
  /\ pc = "cache" /\ ctx.time < MaxOps
  /\ data' = get(data, id).cache
  /\ ctx' = [ctx EXCEPT !.time = @ + 1]
  /\ decoded' = IF get(data, id).result = <<>> THEN decoded
                ELSE [decoded EXCEPT !.usedAt[id] = ctx.time + 1]
  /\ written' = Operation("get", id, get(data, id).result, CacheIds(data),
                          EvictedIds(data, get(data, id).cache))
  /\ UNCHANGED <<pc, level, reread>>

\* the entry of a build is written once per call; the time stands for it
Set(id) ==
  /\ pc = "cache" /\ ctx.time < MaxOps
  /\ data' = set(data, id, ctx.time + 1, ctx.maxEntries)
  /\ ctx' = [ctx EXCEPT !.time = @ + 1]
  /\ decoded' = [decoded EXCEPT !.usedAt[id] = ctx.time + 1, !.setAt[id] = ctx.time + 1]
  /\ written' = Operation("set", id, <<>>, CacheIds(data) \cup {id},
                          EvictedIds(mapSet(data, id, ctx.time + 1),
                                     set(data, id, ctx.time + 1, ctx.maxEntries)))
  /\ UNCHANGED <<pc, level, reread>>

Has(id) ==
  /\ pc = "cache" /\ ctx.time < MaxOps
  /\ ctx' = [ctx EXCEPT !.time = @ + 1]
  /\ written' = Operation("has", id, <<cacheHas(data, id)>>, CacheIds(data), <<>>)
  /\ UNCHANGED <<pc, level, data, decoded, reread>>

Clear ==
  /\ pc = "cache" /\ ctx.time < MaxOps
  /\ data' = <<>>
  /\ ctx' = [ctx EXCEPT !.time = @ + 1]
  /\ written' = Operation("clear", "", <<>>, CacheIds(data), <<>>)
  /\ UNCHANGED <<pc, level, decoded, reread>>

InitCache == Idle

NextCache ==
  \/ CreateBuildCache
  \/ \E id \in BuildIds : Get(id)
  \/ \E id \in BuildIds : Set(id)
  \/ \E id \in BuildIds : Has(id)
  \/ Clear

SpecCache == InitCache /\ [][NextCache]_vars

(***************************************************************************)
(* The build queue: the builds table (server/db.ts), the queue worker      *)
(* (server/queue.ts), POST /build (server/routes.ts) and the life of the   *)
(* server process (server/mod.ts).                                         *)
(* data is the builds table in the order of created_at; ctx is the process *)
(* (whether it is up, the worker's variables, the pending timeouts, the    *)
(* archive cache); decoded holds the tick invocations that are waiting for *)
(* their build; reread the promises that stop() calls are waiting for;     *)
(* written is the record of the last step.                                 *)
(* JavaScript runs one task at a time, so a handler keeps the thread up to *)
(* its next await on input or output: each action is one such stretch,     *)
(* with the promise reactions that follow it.                              *)
(***************************************************************************)
\* MAX_QUEUE_DEPTH is 100 in routes.ts; the model scales it down
MAX_QUEUE_DEPTH == 2

MaxJobs == 4

MaxTicks == 2

MaxReopens == 1

\* config.maxDbBuilds is 200 by default; the model scales it down
MaxDbBuilds == 1

SettingsHashes == 1..MaxJobs

Ticks == 1..MaxTicks

LiveStatuses == {"pending", "building", "completed"}

JobIds == 1..MaxJobs

\* stmtInsert: status defaults to 'pending', archive and completed_at to NULL
BuildRow(id, hash) ==
  [id |-> id, hash |-> hash, status |-> "pending", archive |-> FALSE, completedAt |-> 0]

\* stmtCountByStatus
countByStatus(table, status) ==
  Cardinality({i \in 1..Len(table) : table[i].status = status})

\* stmtFindByHash: the newest row of the hash that is pending, building or completed
stmtFindByHash(table, hash) ==
  LET found == {i \in 1..Len(table) :
                  table[i].hash = hash /\ table[i].status \in LiveStatuses}
  IN IF found = {} THEN <<>>
     ELSE <<table[CHOOSE i \in found : \A j \in found : j <= i]>>

insertAlways(table, id, hash) ==
  [table |-> Append(table, BuildRow(id, hash)), job |-> BuildRow(id, hash), inserted |-> TRUE]

\* txInsertOrFind
txInsertOrFind(table, id, hash) ==
  IF stmtFindByHash(table, hash) # <<>>
  THEN [table |-> table, job |-> stmtFindByHash(table, hash)[1], inserted |-> FALSE]
  ELSE [table |-> Append(table, BuildRow(id, hash)), job |-> BuildRow(id, hash),
        inserted |-> TRUE]

\* stmtClaimPending: the oldest pending row becomes building
stmtClaimPending(table) ==
  LET pending == {i \in 1..Len(table) : table[i].status = "pending"}
      first == CHOOSE i \in pending : \A j \in pending : i <= j
  IN IF pending = {} THEN [table |-> table, job |-> <<>>]
     ELSE [table |-> [table EXCEPT ![first].status = "building"],
           job |-> <<[table[first] EXCEPT !.status = "building"]>>]

\* stmtComplete
stmtComplete(table, id, now) ==
  [i \in 1..Len(table) |->
     IF table[i].id = id
     THEN [table[i] EXCEPT !.status = "completed", !.archive = TRUE, !.completedAt = now]
     ELSE table[i]]

\* stmtFail
stmtFail(table, id) ==
  [i \in 1..Len(table) |->
     IF table[i].id = id THEN [table[i] EXCEPT !.status = "failed"] ELSE table[i]]

\* stmtEvict: all but the maxKeep most recently completed rows go
stmtEvict(table, maxKeep) ==
  LET completed == {i \in 1..Len(table) : table[i].status = "completed"}
  IN SelectSeq(table, LAMBDA row :
       ~(row.status = "completed"
         /\ Cardinality({j \in completed : table[j].completedAt > row.completedAt})
              >= maxKeep))

resetUnfinished(table) ==
  [i \in 1..Len(table) |->
     IF table[i].status \in {"building", "failed"} THEN [table[i] EXCEPT !.status = "pending"]
     ELSE table[i]]

\* createDatabase on an existing file: UPDATE builds SET status = 'pending'
\* WHERE status = 'building'
resetInterrupted(table) ==
  [i \in 1..Len(table) |->
     IF table[i].status = "building" THEN [table[i] EXCEPT !.status = "pending"]
     ELSE table[i]]

\* createQueueWorker: running, timer, activePromise.  held says that timer
\* is a timeout still pending, orphans counts the pending timeouts that timer
\* no longer refers to.  pollMs sets only the delay of a timeout, which the
\* model leaves open
QueueWorker ==
  [running |-> FALSE, held |-> FALSE, orphans |-> 0, activePromise |-> <<>>]

NoTick == [at |-> "none", job |-> 0]

IdsBuilding(ticks) == {ticks[t].job : t \in {u \in Ticks : ticks[u].at = "building"}}

\* the poll chains of the worker: ticks waiting for a build and pending timeouts
Chains(w, ticks) ==
  Cardinality({t \in Ticks : ticks[t].at = "building"}) + w.orphans
    + (IF w.held THEN 1 ELSE 0)

ScheduledNever(w) == w

\* the end of tick: if (running) timer = setTimeout(() => void tick(), pollMs)
Scheduled(w) ==
  IF ~w.running THEN w
  ELSE [w EXCEPT !.orphans = IF w.held THEN @ + 1 ELSE @, !.held = TRUE]

\* tick() up to the await of the build: processNext claims a job and waits for
\* loadShaderData, or finds none, and then tick runs to its end
tick(table, w, ticks) ==
  IF ~w.running
  THEN [table |-> table, ticks |-> ticks, claimed |-> <<>>, scheduled |-> FALSE,
        worker |-> w]
  ELSE LET claim == stmtClaimPending(table)
           t == CHOOSE u \in Ticks : ticks[u].at = "none"
       IN IF claim.job = <<>>
          THEN [table |-> table, ticks |-> ticks, claimed |-> <<>>,
                scheduled |-> w.running,
                worker |-> Scheduled([w EXCEPT !.activePromise = <<>>])]
          ELSE [table |-> claim.table, claimed |-> <<claim.job[1].id>>,
                scheduled |-> FALSE,
                ticks |-> [ticks EXCEPT ![t] = [at |-> "building", job |-> claim.job[1].id]],
                worker |-> [w EXCEPT !.activePromise = <<t>>]]

\* the record of a step: what it did to the queue, the table it found, the builds
\* in flight, and whether a stop() had resolved with no start()
\* called since
Event(name, table, claimed, scheduled, resolved, response) ==
  [event |-> name, claimed |-> claimed, scheduled |-> scheduled, resolved |-> resolved,
   response |-> response,
   inFlight |-> IdsBuilding(decoded), stopped |-> ctx.stopped,
   before |-> table]

NoResponse == [status |-> 0, id |-> 0, inserted |-> FALSE, hash |-> 0]

\* createServer after the process has ended: createDatabase on the file that
\* is there, createBuildCache, createQueueWorker, worker.start()
CreateServer ==
  /\ pc = "serving" /\ ~ctx.up
  /\ LET table == resetInterrupted(data)
         ran == tick(table, [QueueWorker EXCEPT !.running = TRUE],
                     [t \in Ticks |-> NoTick])
     IN /\ data' = ran.table
        /\ decoded' = ran.ticks
        /\ ctx' = [ctx EXCEPT !.up = TRUE, !.worker = ran.worker, !.stopped = FALSE,
                              !.cache = <<>>, !.reopens = @ + 1,
                              !.requeued = @ + countByStatus(data, "building"),
                              !.most = IF countByStatus(data, "building") > @
                                       THEN countByStatus(data, "building") ELSE @]
        /\ written' = Event("createServer", table, ran.claimed, ran.scheduled, FALSE, NoResponse)
  /\ reread' = {}
  /\ UNCHANGED <<pc, level>>

\* the process ends with the server running: the table stays as it is
Crash ==
  /\ pc = "serving" /\ ctx.up /\ ctx.reopens < MaxReopens
  /\ ctx' = [ctx EXCEPT !.up = FALSE, !.worker = QueueWorker, !.cache = <<>>,
                        !.stopped = FALSE]
  /\ decoded' = [t \in Ticks |-> NoTick]
  /\ reread' = {}
  /\ written' = Event("crash", data, <<>>, FALSE, FALSE, NoResponse)
  /\ UNCHANGED <<pc, level, data>>

queueFullAbove(pending) == pending > MAX_QUEUE_DEPTH

\* if (pending >= MAX_QUEUE_DEPTH) of POST /build
queueFull(pending) == pending >= MAX_QUEUE_DEPTH

\* the hashes the table has seen and the first it has not: other new
\* hashes differ from that one by their name alone
HashesToSubmit(table) ==
  LET seen == {table[i].hash : i \in 1..Len(table)}
  IN {hash \in SettingsHashes : hash \in seen \/ \A other \in SettingsHashes \ seen : hash <= other}

\* POST /build from the rate limit on, for a body whose settings hash is hash
PostBuild(hash) ==
  /\ pc = "serving" /\ ctx.up
  /\ hash \in HashesToSubmit(data)
  /\ IF queueFull(countByStatus(data, "pending"))
     THEN /\ written' = Event("postBuild", data, <<>>, FALSE, FALSE,
                              [status |-> 503, id |-> 0, inserted |-> FALSE, hash |-> hash])
          /\ UNCHANGED <<data, ctx>>
     ELSE /\ ctx.nextId <= MaxJobs
          /\ LET found == txInsertOrFind(data, ctx.nextId, hash)
             IN /\ data' = found.table
                /\ ctx' = [ctx EXCEPT !.nextId = @ + 1]
                /\ written' = Event("postBuild", data, <<>>, FALSE, FALSE,
                     [status |-> IF ~found.inserted /\ found.job.status = "completed"
                                 THEN 200 ELSE 202,
                      id |-> found.job.id, inserted |-> found.inserted, hash |-> hash])
  /\ UNCHANGED <<pc, level, decoded, reread>>

\* worker.start()
Start ==
  /\ pc = "serving" /\ ctx.up
  /\ ctx.worker.running \/ Chains(ctx.worker, decoded) < MaxTicks
  /\ IF ctx.worker.running
     THEN /\ ctx' = [ctx EXCEPT !.stopped = FALSE]
          /\ written' = Event("start", data, <<>>, FALSE, FALSE, NoResponse)
          /\ UNCHANGED <<data, decoded>>
     ELSE LET ran == tick(data, [ctx.worker EXCEPT !.running = TRUE], decoded)
          IN /\ data' = ran.table
             /\ decoded' = ran.ticks
             /\ ctx' = [ctx EXCEPT !.worker = ran.worker, !.stopped = FALSE]
             /\ written' = [Event("start", data, ran.claimed, ran.scheduled, FALSE, NoResponse)
                              EXCEPT !.stopped = FALSE]
  /\ UNCHANGED <<pc, level, reread>>

\* worker.stop() up to its await, or to its end when activePromise is null
Stop ==
  /\ pc = "serving" /\ ctx.up
  /\ LET w == [ctx.worker EXCEPT !.running = FALSE, !.held = FALSE]
     IN IF ctx.worker.activePromise = <<>>
        THEN /\ ctx' = [ctx EXCEPT !.worker = w, !.stopped = TRUE]
             /\ written' = Event("stop", data, <<>>, FALSE, TRUE, NoResponse)
             /\ UNCHANGED reread
        ELSE /\ ctx' = [ctx EXCEPT !.worker = w]
             /\ reread' = reread \cup {ctx.worker.activePromise[1]}
             /\ written' = Event("stop", data, <<>>, FALSE, FALSE, NoResponse)
  /\ UNCHANGED <<pc, level, data, decoded>>

\* a timeout set by tick comes due: the one timer refers to, or an older one
TimerFires(held) ==
  /\ pc = "serving" /\ ctx.up
  /\ IF held THEN ctx.worker.held ELSE ctx.worker.orphans > 0
  /\ LET w == IF held THEN [ctx.worker EXCEPT !.held = FALSE]
              ELSE [ctx.worker EXCEPT !.orphans = @ - 1]
         ran == tick(data, w, decoded)
     IN /\ data' = ran.table
        /\ decoded' = ran.ticks
        /\ ctx' = [ctx EXCEPT !.worker = ran.worker]
        /\ written' = Event("tick", data, ran.claimed, ran.scheduled, FALSE, NoResponse)
  /\ UNCHANGED <<pc, level, reread>>

BuildOutcomes == {"completed", "throws", "timeout"}

\* the build of tick t settles: the rest of processNext, then the reactions
\* of its promise in the order they were added: activePromise = null, the
\* rest of tick, and the stop() calls that wait for the promise
BuildSettles(t, outcome) ==
  /\ pc = "serving" /\ ctx.up
  /\ decoded[t].at = "building"
  /\ LET id == decoded[t].job
         w == Scheduled([ctx.worker EXCEPT !.activePromise = <<>>])
     IN /\ IF outcome = "completed"
           THEN /\ data' = stmtEvict(stmtComplete(data, id, ctx.clock + 1), MaxDbBuilds)
                /\ ctx' = [ctx EXCEPT !.worker = w, !.clock = @ + 1,
                                      !.cache = set(@, id, ctx.clock + 1, 1),
                                      !.stopped = @ \/ t \in reread]
           ELSE /\ data' = stmtFail(data, id)
                /\ ctx' = [ctx EXCEPT !.worker = w, !.stopped = @ \/ t \in reread]
        /\ written' = [Event(outcome, data, <<>>, ctx.worker.running, t \in reread, NoResponse)
                         EXCEPT !.inFlight = IdsBuilding(decoded) \ {id}]
  /\ decoded' = [decoded EXCEPT ![t] = NoTick]
  /\ reread' = reread \ {t}
  /\ UNCHANGED <<pc, level>>

\* the state createServer leaves on a new database file: an empty table, and
\* the worker started, whose first tick has found no job and set a timeout
InitQueue ==
  LET ran == tick(<<>>, [QueueWorker EXCEPT !.running = TRUE], [t \in Ticks |-> NoTick])
  IN /\ pc = "serving" /\ level = "queue"
     /\ data = ran.table
     /\ decoded = ran.ticks
     /\ ctx = [origin |-> "server", up |-> TRUE, worker |-> ran.worker,
               stopped |-> FALSE, cache |-> <<>>, nextId |-> 1, clock |-> 0,
               reopens |-> 0, requeued |-> 0, most |-> 0]
     /\ written = [event |-> "createServer", claimed |-> ran.claimed,
                   scheduled |-> ran.scheduled, resolved |-> FALSE,
                   response |-> NoResponse, inFlight |-> {}, stopped |-> FALSE,
                   before |-> <<>>]
     /\ reread = {}

NextQueue ==
  \/ CreateServer
  \/ Crash
  \/ \E hash \in SettingsHashes : PostBuild(hash)
  \/ Start
  \/ Stop
  \/ \E held \in BOOLEAN : TimerFires(held)
  \/ \E t \in Ticks, outcome \in BuildOutcomes : BuildSettles(t, outcome)

SpecQueue == InitQueue /\ [][NextQueue]_vars

\* timeouts come due, and the awaits of a build settle
SpecQueueFair ==
  /\ SpecQueue
  /\ WF_vars(\E held \in BOOLEAN : TimerFires(held))
  /\ \A t \in Ticks : WF_vars(\E outcome \in BuildOutcomes : BuildSettles(t, outcome))

(***************************************************************************)
(* Properties.                                                             *)
(***************************************************************************)
HasOddChar(s) == \E i \in 1..Len(s) : s[i] # ZERO /\ s[i] # ONE

C3_WrapperRoundTrip ==
  (pc = "written" /\ level = "bgfxShader" /\ ctx.origin = "wire") =>
    written.bytes = data

\* C8: a wrapper whose tag is not VSH, FSH or CSH, or whose version byte is
\* not 5 under VSH/FSH or not 3 under CSH, is rejected by the reader.
C8_TagAndVersionRejected ==
  (pc = "read" /\ level = "bgfxShader" /\ ctx.origin = "wire") =>
    LET tag == SubSeq(data, 1, 3)
        version == data[4]
    IN (\/ tag \notin {VSH, FSH, CSH}
        \/ (tag \in {VSH, FSH} /\ version # 5)
        \/ (tag = CSH /\ version # 3)) => decoded.err # NoError

\* the value of a hash, as 64 bits
Hash64(h) == Wrap(h, 8)

\* the definitions decoded in a ShaderDefinition session
DecodedDefinitions ==
  IF level # "shaderDefinition" THEN {}
  ELSE (IF pc \in {"read", "written", "reread"} /\ ctx.origin = "wire"
           /\ decoded.err = NoError THEN {decoded.val} ELSE {})
       \cup (IF pc = "reread" /\ reread.err = NoError THEN {reread.val} ELSE {})

C5_Essl300WrittenAsEssl310 ==
  (pc = "written" /\ level = "shaderDefinition" /\ ctx.origin = "memory"
     /\ decoded.val.platform = ESSL_300 /\ ctx.version >= 25) =>
    /\ written.err = NoError
    /\ WirePlatformName(written.bytes) = SHADER_PLATFORM_NAMES[ESSL_310]
    /\ WirePlatformIndex(written.bytes) = 8

\* the names of a definition in a file are known and its indices are not
\* those the names stand for
DefinitionMismatch(bytes, version) ==
  LET stage == shaderStageFromName(TextDecode(WireStageName(bytes)))
      platform == shaderPlatformFromName(TextDecode(WirePlatformName(bytes)))
  IN /\ stage.found /\ platform.found
     /\ \/ stage.v # WireStageIndex(bytes)
        \/ ~getPlatformValue(platform.v, version).ok
        \/ getPlatformValue(platform.v, version).v # WirePlatformIndex(bytes)

\* C7: a definition whose stage name and stage index disagree, or whose
\* platform name and wire index disagree, is rejected by the reader with a
\* MaterialFormatError.
C7_MismatchIsFormatError ==
  (pc = "read" /\ level = "shaderDefinition" /\ ctx.origin = "wire"
     /\ DefinitionMismatch(data, ctx.version)) =>
    decoded.err = "MaterialFormatError"

\* C1: every valid container of version 22 to 25 is written back by
\* writeMaterial(readMaterial(b)) byte for byte.
C1_ContainerRoundTrip ==
  /\ (pc = "read" /\ level = "material" /\ ctx.kind = "valid") => decoded.err = NoError
  /\ (pc = "written" /\ level = "material" /\ ctx.kind = "valid") =>
       (written.err = NoError /\ written.bytes = data)

AllShaders(m) ==
  UNION {UNION {{m.passes[i].variants[j].shaders[k] :
                   k \in 1..Len(m.passes[i].variants[j].shaders)} :
                  j \in 1..Len(m.passes[i].variants)} :
           i \in 1..Len(m.passes)}

AllVariants(m) ==
  UNION {{m.passes[i].variants[j] : j \in 1..Len(m.passes[i].variants)} :
           i \in 1..Len(m.passes)}

AllPasses(m) == {m.passes[i] : i \in 1..Len(m.passes)}

\* the fields of a wrapper hold what the format has room for
ValidBgfxShader(shader, platform, stage) ==
  /\ Len(shader.hash) = 4
  /\ shader.groupSize # <<>> <=> (platform = Metal /\ stage = Compute)
  /\ shader.groupSize # <<>> => Len(shader.groupSize) = 3
  /\ shader.size = -1 => shader.attributes = <<>>

ValidUniform(uniform) ==
  IF uniform.type \in DOMAIN FLOAT_COUNTS
  THEN Len(uniform.count) = 4 /\ Len(uniform.default) \in {0, FLOAT_COUNTS[uniform.type]}
  ELSE uniform.type = External /\ uniform.count = Repeat(0, 4) /\ uniform.default = <<>>

\* a Material with valid fields
ValidMaterial(m) ==
  /\ m.version \in Versions
  /\ \/ m.encryption = NONE /\ m.encryptionKey = <<>> /\ m.encryptionNonce = <<>>
     \/ m.encryption = SIMPLE_PASSPHRASE /\ ImportKeyOk(m.encryptionKey)
  /\ IsObject(m.uniformOverrides)
  /\ m.name = CoreBuiltins => m.uniformOverrides = <<>>
  /\ \A i \in 1..Len(m.uniforms) : ValidUniform(m.uniforms[i])
  /\ \A p \in AllPasses(m) :
       /\ IsObject(p.defaultVariant)
       /\ Len(p.framebufferBinding) = 4
       /\ m.version < 23 => p.framebufferBinding = Repeat(0, 4)
       /\ DOMAIN p.supportedPlatforms.platforms = ShaderPlatform
  /\ \A w \in AllVariants(m) : IsObject(w.flags)
  /\ \A d \in AllShaders(m) :
       Len(d.hash) = 8 /\ ValidBgfxShader(d.bgfxShader, d.platform, d.stage)

CodecErrors == {"MaterialFormatError", "UnsupportedVersionError", "EncryptionError"}

\* C4: reading a container with a corrupted magic, a truncated container or
\* a container holding an invalid enum name ends with an error of the codec.
C4_CodecErrorOnCorruption ==
  (pc = "read" /\ level = "material" /\ ctx.kind \in {"magic", "truncated", "enum"}) =>
    decoded.err \in CodecErrors

\* C6: no Material read from a container of version 25 or later holds a
\* ShaderDefinition of platform ESSL_300.
C6_NoEssl300From25 ==
  (pc = "read" /\ level = "material" /\ decoded.err = NoError
     /\ decoded.val.version >= 25) =>
    \A d \in AllShaders(decoded.val) : d.platform # ESSL_300

\* the indices at which the expression of the session holds
TrueAt ==
  {index \in 0..(Shl1(Len(data.variables)) - 1) :
     Holds(decoded.val.expression, Assignment(data.variables, index))}

\* C11: for every variable list and every list of minterms below 2^n, the
\* expression simplifyLogic returns holds under an assignment exactly when
\* the index of the assignment, first variable most significant, is one of
\* the minterms.
C11_ExpressionMatchesMinterms ==
  (pc = "simplified") =>
    TrueAt = {data.minterms[i] : i \in 1..Len(data.minterms)}

\* a list that names no minterm twice gives an expression that holds exactly
\* at its minterms
DistinctMintermsMatch ==
  (pc = "simplified"
     /\ Cardinality({data.minterms[i] : i \in 1..Len(data.minterms)})
          = Len(data.minterms)) =>
    TrueAt = {data.minterms[i] : i \in 1..Len(data.minterms)}

\* C16: the expression simplifyLogic returns is exactly "False" when the
\* minterms are the empty set and exactly "True" when they are all 2^n
\* indices, for every variable list of length n.
C16_ConstantExpressions ==
  (pc = "simplified") =>
    /\ {data.minterms[i] : i \in 1..Len(data.minterms)} = {} =>
         decoded.val.expression = FalseText
    /\ {data.minterms[i] : i \in 1..Len(data.minterms)}
         = 0..(Shl1(Len(data.variables)) - 1) =>
         decoded.val.expression = TrueText

\* all eight minterms of three variables were given
C16_Witness ==
  /\ pc = "simplified"
  /\ data.variables = <<VarA, VarB, VarC>>
  /\ data.minterms = <<0, 1, 2, 3, 4, 5, 6, 7>>
  /\ decoded.val.expression = TrueText

\* C17: for every key of 16, 24 or 32 bytes, every nonce of at least 12
\* bytes and every plaintext, decryptAesGcm of the bytes encryptAesGcm
\* returned, under the same key and nonce, is the plaintext.
C17_EncryptionRoundTrip ==
  (pc = "reread" /\ level = "cipher"
     /\ Len(ctx.key) \in {16, 24, 32} /\ Len(ctx.nonce) >= 12) =>
    /\ reread.err = NoError
    /\ reread.bytes = data

\* three bytes went through a 32 byte key and a 16 byte nonce and came back
C17_Witness ==
  /\ pc = "reread" /\ level = "cipher"
  /\ Len(ctx.key) = 32 /\ Len(ctx.nonce) = 16
  /\ data = <<0, 127, 255>>
  /\ written.bytes # data
  /\ reread.bytes = data

\* the lines of a diffed code whose condition holds every flags of flagList
LinesUnder(diffed, flagList) ==
  Concat([j \in 1..Len(diffed.lines) |->
    IF \A f \in 1..Len(flagList) :
         \E h \in 1..Len(diffed.lineConditions[j]) :
           diffed.lineConditions[j][h] = flagList[f]
    THEN <<diffed.lines[j]>> ELSE <<>>])

\* C12: after diffPermutations has folded a list of encoded permutations,
\* for each permutation the result lines whose condition contains the flags
\* of the permutation are, in order, exactly the encoded lines of the
\* permutation.
C12_FoldKeepsEveryPermutation ==
  (pc = "diffed") =>
    \A p \in 1..Len(decoded.val.mainShader.codes) :
      LinesUnder(written, decoded.val.mainShader.flags[p])
        = decoded.val.mainShader.codes[p]

\* three permutations that share some lines were folded into five lines
C12_Witness ==
  /\ pc = "diffed"
  /\ decoded.val.mainShader.codes = <<<<0, 1>>, <<1, 0>>, <<1, 1>>>>
  /\ Len(written.lines) > 3
  /\ \E j \in 1..Len(written.lines) : Len(written.lineConditions[j]) >= 2

\* the macros that are defined under flags: the macro of a flag name and a
\* flag value is defined iff the flag has the value
DefinedUnder(flags) ==
  {tokenToMacro(Token(JoinInitial, FALSE, flags[i][1], flags[i][2])) :
     i \in 1..Len(flags)}

DefinedHolds(l, defined) ==
  /\ StartsWith(l, DefinedText)
  /\ SubSeq(l, Len(DefinedText) + 1, Len(l) - 1) \in defined

LiteralDefined(l, defined) ==
  IF StartsWith(l, <<BANG>>) THEN ~DefinedHolds(Tail(l), defined)
  ELSE DefinedHolds(l, defined)

\* the value of the condition of an #if under the defined macros
ConditionHolds(cond, defined) ==
  IF cond = <<48>> THEN FALSE
  ELSE \E p \in Pieces(cond, <<32, BAR, BAR, 32>>) :
         \A l \in Pieces(Unparenthesized(p), <<32, AMPERSAND, AMPERSAND, 32>>) :
           LiteralDefined(l, defined)

IsOpening(line) == StartsWith(line, IfText) \/ StartsWith(line, IfdefText)
                     \/ StartsWith(line, IfndefText)

IsDirective(line) == IsOpening(line) \/ line = EndifText

OpeningHolds(line, defined) ==
  IF StartsWith(line, IfdefText)
  THEN SubSeq(line, Len(IfdefText) + 1, Len(line)) \in defined
  ELSE IF StartsWith(line, IfndefText)
  THEN SubSeq(line, Len(IfndefText) + 1, Len(line)) \notin defined
  ELSE ConditionHolds(SubSeq(line, Len(IfText) + 1, Len(line)), defined)

\* the line i is outside every conditional or inside one that holds
Active(lines, i, defined) ==
  \A h \in 1..(i - 1) :
    (IsOpening(lines[h]) /\ \A k \in (h + 1)..(i - 1) : ~IsDirective(lines[k]))
      => OpeningHolds(lines[h], defined)

\* the text that a preprocessor makes of code under the defined macros,
\* without the directives and the Approximation comments
Preprocessed(code, defined) ==
  Join(Concat([i \in 1..Len(SplitLines(code)) |->
         IF \/ IsDirective(SplitLines(code)[i])
            \/ StartsWith(SplitLines(code)[i], ApproximationText)
            \/ ~Active(SplitLines(code), i, defined)
         THEN <<>> ELSE <<SplitLines(code)[i]>>]),
       <<NEWLINE>>)

\* the code of a variant as restoreCode takes it
Normalized(code) == IF data.removeComments THEN stripComments(code) ELSE code

\* C13: for every input variant (code_i, flags_i) of restoreCode, the
\* reconstructed source preprocessed under flags_i, each macro defined iff
\* flags_i gives its flag its value, is code_i up to the stripping of comments
\* and the Approximation comments.
C13_ReconstructionSound ==
  pc = "restored" =>
    \A p \in 1..Len(data.inputVariants) :
      Preprocessed(written.code, DefinedUnder(data.inputVariants[p].flags))
        = Normalized(data.inputVariants[p].code)

\* C14: two runs of restoreCode with the same input variants and the same
\* searchTimeout give the same code and the same used macros.
C14_RunsAgree ==
  pc = "restoredAgain" =>
    reread.code = written.code /\ reread.usedMacros = written.usedMacros

RECURSIVE NumberOf(_)
NumberOf(digits) ==
  IF Len(digits) = 1 THEN digits[1] - 48
  ELSE 10 * NumberOf(SubSeq(digits, 1, Len(digits) - 1)) + (digits[Len(digits)] - 48)

IsNumber(digits, n) == Len(digits) >= 1 /\ IsDigits(digits) /\ NumberOf(digits) = n

\* the first line of a text
FirstLine(text) == SplitLines(text)[1]

\* marker is the Approximation comment of score cases out of total
IsMarker(marker, score, total) ==
  /\ StartsWith(marker, ApproximationText)
  /\ \E k \in (Len(ApproximationText) + 1)..Len(marker) :
       /\ SepAt(marker, CasesOutOfText, k)
       /\ IsNumber(SubSeq(marker, Len(ApproximationText) + 1, k - 1), score)
       /\ IsNumber(SubSeq(marker, k + Len(CasesOutOfText), Len(marker)), total)

\* C15: a conditional of a search result whose score is less than the number
\* of the flag assignments of its search input begins with the comment
\* "// Approximation, matches <score> cases out of <total>" of that score and
\* that total, and a conditional whose score is the total has no such comment.
C15_ApproximationMarked ==
  pc = "restored" =>
    /\ Len(written.finalMacros) = Len(decoded.val)
    /\ \A i \in 1..Len(decoded.val) :
         IF decoded.val[i].score < Len(ctx.prepared.extracted.searchInputs[i].flags)
         THEN /\ IsMarker(FirstLine(written.finalMacros[i]), decoded.val[i].score,
                          Len(ctx.prepared.extracted.searchInputs[i].flags))
              /\ IsOpening(SplitLines(written.finalMacros[i])[2])
         ELSE /\ IsOpening(written.finalMacros[i])
              /\ ~StrIncludes(written.finalMacros[i], ApproximationText)

C15_Witness ==
  /\ pc = "restored"
  /\ \E i \in 1..Len(decoded.val) :
       /\ decoded.val[i].score < Len(ctx.prepared.extracted.searchInputs[i].flags)
       /\ decoded.val[i].score > 0
       /\ StartsWith(written.finalMacros[i], ApproximationText)
  /\ \E i \in 1..Len(decoded.val) :
       decoded.val[i].score = Len(ctx.prepared.extracted.searchInputs[i].flags)

\* every search result matches all the flag assignments of its input
AllExact ==
  \A i \in 1..Len(decoded.val) :
    decoded.val[i].score = Len(ctx.prepared.extracted.searchInputs[i].flags)

\* a reconstruction without an approximated conditional is sound
ExactReconstructionSound ==
  (pc = "restored" /\ AllExact) =>
    \A p \in 1..Len(data.inputVariants) :
      Preprocessed(written.code, DefinedUnder(data.inputVariants[p].flags))
        = Normalized(data.inputVariants[p].code)

CallsOn(k) == SelectSeq(written, LAMBDA r : r.on = <<k>>)

CompilationFailedAt(t) ==
  /\ decoded[t].at = "thrown"
  /\ decoded[t].error.kind = "CompilationFailed"

\* C18: within one compileMaterial call the shaders are handed to the compiler
\* in the manifest's order; when a shader's compilation fails, that call is
\* the last one the invocation makes, the invocation throws a compilation
\* error naming that file, and it returns no material and no bytes; a
\* material is returned only after every shader of the manifest compiled.
C18_FirstFailureAborts ==
  pc = "compiling" =>
    \A t \in Invocations :
      LET task == decoded[t]
          manifest == data.manifests[t]
          n == Len(task.compiled)
      IN /\ n <= Len(manifest)
         /\ task.compiled = SubSeq(manifest, 1, n)
         /\ \A j \in 1..Len(task.results) :
              ~task.results[j] =>
                /\ j = n
                /\ task.at = "thrown"
                /\ task.error = Failure("CompilationFailed", manifest[j])
                /\ task.returned = <<>>
         /\ CompilationFailedAt(t) =>
              /\ n >= 1
              /\ manifest[n] \in data.fails
              /\ \A j \in 1..(n - 1) : manifest[j] \notin data.fails
              /\ task.compiledShaders = SubSeq(manifest, 1, n - 1)
         /\ task.returned # <<>> =>
              /\ task.at = "returned"
              /\ task.compiled = manifest
              /\ \A j \in 1..Len(manifest) : manifest[j] \notin data.fails
              /\ task.returned[1].material = manifest

C18_Witness ==
  /\ pc = "compiling"
  /\ \E t \in Invocations :
       /\ CompilationFailedAt(t)
       /\ Len(decoded[t].compiled) < Len(data.manifests[t])
  /\ \E t \in Invocations :
       /\ CompilationFailedAt(t)
       /\ Len(decoded[t].compiled) > 1

\* C19: at most one compile call is in progress on a compiler at any time,
\* whichever invocations of compileMaterial share it.
C19_CompileCallsSerialized ==
  pc = "compiling" =>
    \A k \in 1..Len(ctx.compilers) :
      /\ ctx.compilers[k].active <= 1
      /\ Cardinality({t \in Invocations :
                        decoded[t].at = "compile" /\ decoded[t].dxc = <<k>>}) <= 1

C19_Witness ==
  /\ pc = "compiling"
  /\ \E t, u \in Invocations :
       /\ t # u
       /\ decoded[t].dxc = decoded[u].dxc
       /\ decoded[t].at = "compile"
       /\ ctx.compilers[decoded[t].dxc[1]].active = 1
       /\ decoded[u].at = "writeMaterial"
       /\ decoded[u].compiled # <<>>

\* C20: the resources of a compiler are released by the first release call
\* made on it and never again: every later dispose() or disposeDxcCompiler()
\* leaves the compiler as it found it, and a disposeDxcCompiler() without a
\* singleton releases nothing.
C20_ReleasedOnce ==
  pc = "compiling" =>
    /\ \A k \in 1..Len(ctx.compilers) :
         /\ ctx.compilers[k].released = IF CallsOn(k) = <<>> THEN 0 ELSE 1
         /\ ctx.compilers[k].disposed = (CallsOn(k) # <<>>)
         /\ \A j \in 1..Len(CallsOn(k)) :
              IF j = 1
              THEN /\ CallsOn(k)[j].before.released = 0
                   /\ CallsOn(k)[j].after.released = 1
              ELSE CallsOn(k)[j].after = CallsOn(k)[j].before
    /\ \A j \in 1..Len(written) :
         written[j].on = <<>> => written[j].after = written[j].before

C20_Witness ==
  /\ pc = "compiling"
  /\ \E k \in 1..Len(ctx.compilers) :
       /\ Len(CallsOn(k)) > 1
       /\ CallsOn(k)[1].call = "dispose"
       /\ CallsOn(k)[2].call = "disposeDxcCompiler"
       /\ ctx.compilers[k].released = 1
       /\ \E t \in Invocations : decoded[t].dxc = <<k>> /\ decoded[t].compiled # <<>>

\* C21: after filterAndBiasFlags the definition passed in reads as it did
\* before the call: the same flag names and, for every flag, the same values
\* in the same order.
C21_InputUnchanged ==
  pc = "rereadDefinition" => reread = data

\* the returned definition is the filtered and biased one
ReturnedFilteredAndBiased ==
  pc = "rereadDefinition" =>
    decoded.val.mainShader = filterAndBiasFlags(data.mainShader)

\* the flag assignments on which the returned token list evaluates to the
\* expected outcome
Matched == {n \in 1..Len(data.flags) : written[n] = data.flags[n][1]}

\* C29: the score returned by expressionSearch is the number of flag
\* assignments of the input on which evaluateExpression of the returned token
\* list gives the expected outcome.
C29_ScoreIsMatchCount ==
  pc = "evaluated" => decoded.val.score = Cardinality(Matched)

\* the same for the token lists that have a token
ScoreIsMatchCountOfTokens ==
  pc = "evaluated" /\ decoded.val.tokenList # <<>> =>
    decoded.val.score = Cardinality(Matched)

(***************************************************************************)
(* Processing the token list of a search output into a conditional         *)
(* (src/decompiler/expression-processing.ts).                              *)
(***************************************************************************)
MaxTokens == 3

\* the tokens of the flags f_A and f_B with the values On and Off
TokensJoined(joinTypes) ==
  {Token(j, neg, name, val) :
     j \in joinTypes, neg \in BOOLEAN, name \in {FlagA, FlagB}, val \in {OnText, OffText}}

\* the token lists the searches build: an Initial token, then Or and And tokens
TokenLists ==
  {tokenList \in UNION {[1..n -> TokensJoined({JoinInitial, JoinOr, JoinAnd})] :
                          n \in 1..MaxTokens} :
     /\ tokenList[1].joinType = JoinInitial
     /\ \A i \in 2..Len(tokenList) : tokenList[i].joinType # JoinInitial}

ProcessExpressions ==
  /\ pc = "idle"
  /\ \E tokenList \in TokenLists :
       /\ data' = tokenList
       /\ ctx' = [origin |-> "memory", variables |-> buildTruthTable(tokenList).variables]
       /\ decoded' = Ok(processExpressions(<<[tokenList |-> tokenList, score |-> 0]>>))
  /\ pc' = "processed" /\ level' = "tokenList"
  /\ UNCHANGED <<written, reread>>

\* the macros that the k-th row of the truth table defines
DefinedAt(variables, k) ==
  {variables[j] : j \in {j \in 1..Len(variables) : Assignment(variables, k)[variables[j]]}}

\* a preprocessor evaluates the conditional, and the token list is evaluated,
\* under every assignment of the macros
EvaluateConditional ==
  /\ pc = "processed" /\ level = "tokenList"
  /\ written' = Concat([k \in 1..Shl1(Len(ctx.variables)) |->
       << [conditional |-> OpeningHolds(decoded.val.macroConditionals[1],
                                        DefinedAt(ctx.variables, k - 1)),
           tokens |-> evaluateTokensWithMacros(data, Assignment(ctx.variables, k - 1))] >>])
  /\ pc' = "conditionalEvaluated"
  /\ UNCHANGED <<level, ctx, data, decoded, reread>>

InitProcess == Idle

NextProcess == ProcessExpressions \/ EvaluateConditional

SpecProcess == InitProcess /\ [][NextProcess]_vars

\* C30: the conditional that processExpressions emits for a token list holds
\* under an assignment of its macros exactly when the token list evaluates to
\* true under that assignment, for every assignment.
C30_ConditionalMatchesTokens ==
  pc = "conditionalEvaluated" =>
    \A k \in 1..Len(written) : written[k].conditional = written[k].tokens

\* the same for the token lists that are false under some assignment
ConditionalMatchesUnlessAlwaysTrue ==
  pc = "conditionalEvaluated" /\ (\E k \in 1..Len(written) : ~written[k].tokens) =>
    \A k \in 1..Len(written) : written[k].conditional = written[k].tokens

\* C25: the cache never holds more than maxEntries entries, and an entry
\* that an operation evicts was, of the entries the cache held then, the one
\* whose last set or read hit is the oldest.
C25_BoundedLeastRecentlyUsed ==
  pc = "cache" =>
    /\ Len(data) <= ctx.maxEntries
    /\ written.op \in {"get", "has"} => written.evicted = <<>>
    /\ \A i \in 1..Len(written.evicted) :
         \A p \in written.present \ {written.evicted[j] : j \in 1..(i - 1)} :
           decoded.usedAt[written.evicted[i]] <= decoded.usedAt[p]

\* an eviction of an entry that was set after an entry that stays: the
\* entry that stays was read in between
C25_Witness ==
  /\ pc = "cache"
  /\ written.op = "set"
  /\ Len(data) = ctx.maxEntries
  /\ \E i \in 1..Len(written.evicted) :
       \E p \in CacheIds(data) \ {written.id} :
         /\ decoded.setAt[p] < decoded.setAt[written.evicted[i]]
         /\ decoded.usedAt[p] > decoded.usedAt[written.evicted[i]]

StatusesBuilding == {i \in 1..Len(data) : data[i].status = "building"}

\* C22: at most one job has status 'building' at any moment.
C22_OneJobAtATime == pc = "serving" => Cardinality(StatusesBuilding) <= 1

\* C23: a stop() resolves with no build in flight, and after a stop() has
\* resolved no job is claimed and no poll scheduled before the next start().
C23_StopWaitsAndHalts ==
  pc = "serving" =>
    /\ written.resolved => written.inFlight = {}
    /\ (written.claimed # <<>> \/ written.scheduled) => ~written.stopped

\* the status of job id in the table, "absent" when the table has no such row
StatusOf(table, id) ==
  IF \E i \in 1..Len(table) : table[i].id = id
  THEN table[CHOOSE i \in 1..Len(table) : table[i].id = id].status
  ELSE "absent"

LiveWithHash(table, hash) ==
  {i \in 1..Len(table) : table[i].hash = hash /\ table[i].status \in LiveStatuses}

C26_QueueDepthBounded ==
  pc = "serving" =>
    /\ countByStatus(data, "pending") <= MAX_QUEUE_DEPTH
    /\ (written.event = "postBuild"
          /\ countByStatus(written.before, "pending") >= MAX_QUEUE_DEPTH) =>
         written.response.status = 503 /\ data = written.before

\* no submission takes the number of pending jobs above MAX_QUEUE_DEPTH, and
\* it exceeds MAX_QUEUE_DEPTH only after a reopening of the database that
\* found two or more jobs building
QueueDepthBoundedBySubmissions ==
  pc = "serving" =>
    /\ ctx.most <= 1 => countByStatus(data, "pending") <= MAX_QUEUE_DEPTH
    /\ countByStatus(data, "pending") <= MAX_QUEUE_DEPTH + ctx.requeued
    /\ written.event = "postBuild" =>
         /\ countByStatus(written.before, "pending") >= MAX_QUEUE_DEPTH =>
              written.response.status = 503 /\ data = written.before
         /\ written.response.inserted => countByStatus(data, "pending") <= MAX_QUEUE_DEPTH

\* the changes of status the table allows in one step
StatusStep(from, to, reopening) ==
  \/ from = to
  \/ from = "absent" /\ to = "pending"
  \/ from = "pending" /\ to = "building"
  \/ from = "building" /\ to \in {"completed", "failed"}
  \/ from = "building" /\ to = "pending" /\ reopening
  \/ from = "completed" /\ to = "absent"

OldestPending(table, id) ==
  /\ StatusOf(table, id) = "pending"
  /\ \A i \in 1..Len(table) : table[i].status = "pending" => id <= table[i].id

HasStatus(id, statuses) == pc = "serving" /\ StatusOf(data, id) \in statuses

ProcessUp == pc = "serving" /\ ctx.up

WorkerRunning == pc = "serving" /\ ctx.worker.running

\* C28: a claim takes the oldest pending job; while the worker keeps
\* running, again and again no job is pending, so that every pending job is
\* claimed in the end; while the process lives, again and again no job is
\* being built, so that every claimed job is completed or failed in the end.
C28_EveryJobIsBuilt ==
  /\ [](pc = "serving" /\ written.claimed # <<>> =>
          OldestPending(written.before, written.claimed[1]))
  /\ []<>(~WorkerRunning \/ countByStatus(data, "pending") = 0)
  /\ []<>(~ProcessUp \/ countByStatus(data, "building") = 0)

\* each job by itself: a pending job is claimed in the end or the worker is
\* stopped, a job being built is completed or failed in the end or the
\* process ends
EachJobIsBuilt ==
  /\ \A id \in JobIds :
       HasStatus(id, {"pending"}) ~> (~HasStatus(id, {"pending"}) \/ ~WorkerRunning)
  /\ \A id \in JobIds :
       HasStatus(id, {"building"})
         ~> (HasStatus(id, {"completed", "failed", "absent"}) \/ ~ProcessUp)

\* a build that ran into its timeout has failed while a younger job waits
C28_Witness ==
  /\ pc = "serving"
  /\ written.event = "timeout"
  /\ \E i, j \in 1..Len(data) :
       i < j /\ data[i].status = "failed" /\ data[j].status = "pending"
  /\ ctx.worker.running

====
